---- MODULE Spec2Model ----
(***************************************************************************)
(* The cart & reservation engine (logic/cart.py), the planogram            *)
(* synchronizer (logic/planogram.py) and the rows of the repository        *)
(* (db/database.py) they work on.                                          *)
(*                                                                         *)
(* Repository methods are modelled by the effect of the SQL statement they *)
(* issue and by the rows they return; a DbError is an outcome the caller   *)
(* may observe.  Tables are sequences in row order (the order SELECT       *)
(* returns), except cart_contents, whose primary key is the pair           *)
(* (cart_id, variant_id).  A reservation row is identified by its position *)
(* (the row order is the order of the ids).                                *)
(*                                                                         *)
(* Statements that cannot run as written (SQL with a misplaced comma or a  *)
(* missing clause, tray.item(), the lock taken twice in                    *)
(* add_or_update_reservation, Timer objects that are never started) are    *)
(* read as the operation they spell out; where such a statement raises     *)
(* DbError in the source, the DbError outcome is one of the outcomes of    *)
(* the action (db_error).  The ON DELETE CASCADE of the schema file, which *)
(* is not part of the sources, is taken from the specification.            *)
(*                                                                         *)
(* The specifications share the state: Spec (the cart arithmetic),         *)
(* SpecExpiry (timers, sweeps, PURCHASE_FINISHED, restarts), SpecPlanogram *)
(* (planogram notification, commit, relocation), SpecCheckout,             *)
(* SpecPrereservation, SpecRecovery and SpecTimeout (transactions, remote  *)
(* reservations, restarts, the clock), SpecDispatch (core/event_bus.py),   *)
(* SpecMachineEvents and SpecMachineStep (logic/machine.py, core/fsm.py),  *)
(* SpecCartThreads and SpecPlanogramWorker (the worker threads, stop(),    *)
(* the threads that call CartLogic), SpecCommit (a commit that resizes a   *)
(* slot), SpecSweepRace (the periodic task next to prolong),               *)
(* SpecDispatchProgress and SpecDispatchScheduled (the dispatcher with the *)
(* steps that are sure to happen), SpecHandlerLocks (the locks of the      *)
(* queues around a handler), SpecCleanup (KioskBackend.cleanup) and        *)
(* SpecStop (stop() and join of the two workers).  The variables a         *)
(* specification does not step keep their initial values in it.            *)
(***************************************************************************)
EXTENDS Integers, Sequences, FiniteSets, TLC

\* ---------------------------------------------------------------- bounds
MaxAmount == 2          \* |amount| of an update request
MaxItemAmount == 3      \* largest CartItem.amount the requests are allowed to build
MaxOverdraw == 1        \* most negative reservation quantity the requests are allowed to build
MaxCartId == 2          \* carts that can be created in one behaviour
MaxTime == 3            \* last instant of the clock
MaxPending == 1         \* PLANOGRAM_WAS_UPDATED commands waiting in the cart queue
MaxTimers == 1          \* items of the reservation expiration list
SecPerMin == 2          \* seconds in a "minute" of the long timers (scaled)
PrereservationSeconds == 1   \* config prereservation_timeout (scaled)
ExpirationSeconds == 2       \* config expiration_timeout (scaled)
ReservationMinutes == 1      \* config reservation_timeout (scaled)
OrderHistoryMinutes == 1     \* config order_history_timeout (scaled)

MaxEvents == 4          \* events posted to the bus in one behaviour
MaxMachineEvents == 2   \* events waiting in the queue of the machine worker
MaxQueued == 2          \* events waiting in the queue of the cart or the planogram worker

\* ------------------------------------------------------ program constants
MAX_UNITS == 1
EXP_LIST_CHECK_PERIOD_SEC == 1    \* scaled with SecPerMin
EXP_TM_TICKS_IN_MINUTE == SecPerMin \div EXP_LIST_CHECK_PERIOD_SEC

V1 == 100
V2 == 200
Variants == {V1, V2}
LocalTx == "unassigned#1"
RemoteTx == "X"
TxIds == {LocalTx, RemoteTx}
Amounts == (0 - MaxAmount)..MaxAmount

VARIABLES
    inventory,            \* table inventory
    carts,                \* table cart
    cart_contents,        \* table cart_contents
    reservations,         \* table reservation
    order_history,        \* table order_history
    next_cart_id,         \* next row id of table cart
    next_rec_id,          \* next row id of table order_history
    foreign_keys,         \* PRAGMA foreign_keys of the open connection
    exp_list,             \* CartLogic._exp_list
    reservation_exp_list, \* CartLogic._reservation_exp_list
    order_hist_exp_list,  \* CartLogic._order_hist_exp_list
    exp_tm_tick_cnt,      \* CartLogic._exp_tm_tick_cnt
    event_q,              \* CartLogic._event_q
    current_planogram,    \* PlanogramLogic._current_planogram
    new_planogram,        \* PlanogramLogic._new_planogram
    new_variants,         \* ids of PlanogramLogic._new_variants
    commit,               \* progress of PlanogramLogic._apply_new_planogram
    now,                  \* the clock
    posted,               \* events posted to the bus by the last step
    last,                 \* the operation of the last step, its result, the carts it removed
    highprio_q,           \* EventBus._highprio_q, the next event to pop first
    normprio_q,           \* EventBus._normprio_q
    lowprio_q,            \* EventBus._lowprio_q
    dispatch,             \* position of EventBus._dispatch
    delivered,            \* the handler invocations of the bus so far, in order
    bus_log,              \* the events posted to the bus so far, in order
    current_state,        \* FSM._current_state of MachineLogic._fsm
    dispenser_is_ready,   \* MachineLogic._dispenser_is_ready
    is_door_open,         \* MachineLogic._is_door_open
    is_hw_error_indicated,        \* MachineLogic._is_hw_error_indicated
    is_dispensing_in_progress,    \* MachineLogic._is_dispensing_in_progress
    planogram_set,        \* what PlanogramLogic.is_planogram_set() returns
    machine_q,            \* MachineLogic._event_q
    plan_event_q,         \* PlanogramLogic._event_q
    stopped,              \* _stopped of CartLogic and of PlanogramLogic
    stop_at,              \* position of stop() of CartLogic and of PlanogramLogic
    worker,               \* position of _event_processing_worker of the two modules
    calls,                \* the cart operation each thread other than the worker is inside
    plan_posted,          \* the events PlanogramLogic posted last
    sweep,                \* position of CartLogic._exp_list_process in its first loop
    running,              \* the handler the dispatcher is inside, <<>> when in none
    timers                \* the Timer objects of the periodic tasks

dbVars == <<inventory, carts, cart_contents, reservations, order_history, next_cart_id,
            next_rec_id, foreign_keys>>
timerVars == <<exp_list, reservation_exp_list, order_hist_exp_list, exp_tm_tick_cnt>>
planVars == <<current_planogram, new_planogram, new_variants, commit>>
appVars == <<dbVars, timerVars, planVars, event_q, now, posted, last>>
busVars == <<highprio_q, normprio_q, lowprio_q, dispatch, delivered, bus_log>>
machineVars == <<current_state, dispenser_is_ready, is_door_open, is_hw_error_indicated,
                 is_dispensing_in_progress, planogram_set, machine_q>>
workerVars == <<plan_event_q, stopped, stop_at, worker, calls, plan_posted, sweep,
                running, timers>>
sysVars == <<busVars, machineVars, workerVars>>
vars == <<appVars, sysVars>>

\* ------------------------------------------------------------- rows
InventoryItem(u, t, l, v, w, d, q) ==
    [unit_id |-> u, tray_number |-> t, location |-> l, variant_id |-> v,
     width |-> w, depth |-> d, quantity |-> q]

Reservation(c, v, u, l, q) ==
    [cart_id |-> c, variant_id |-> v, unit_id |-> u, location |-> l, quantity |-> q]

Cart(id, disp, tx, type, status) ==
    [obj_id |-> id, display_id |-> disp, transaction_id |-> tx, cart_type |-> type,
     status |-> status, order_info |-> "", locked_at |-> 0]

ExpirationItem(id, at) == [obj_id |-> id, exp_at |-> at]

OrderHistoryRecord(id, tx, info, status, t) ==
    [obj_id |-> id, transaction_id |-> tx, order_info |-> info,
     completion_status |-> status, created_at |-> t]

\* a slot of a planogram tray: trays[tray_number][location]
Slot(t, l, v, w, d) ==
    [tray_number |-> t, location |-> l, variant_id |-> v, width |-> w, depth |-> d]

\* an entry of _current_planogram / _new_planogram: None, or the trays of the unit
None == [none |-> TRUE, slots |-> <<>>]
Trays(slots) == [none |-> FALSE, slots |-> slots]

Event(type, body) == [type |-> type, body |-> body]

\* a command of the cart worker's queue
CartEvent(type, cart_id) == [type |-> type, cart_id |-> cart_id]

\* ------------------------------------------------------------- helpers
RECURSIVE SumQuantity(_)
SumQuantity(rows) ==
    IF rows = <<>> THEN 0 ELSE Head(rows).quantity + SumQuantity(Tail(rows))

RECURSIVE RemoveFirst(_, _)
RemoveFirst(s, id) ==
    IF s = <<>> THEN <<>>
    ELSE IF Head(s).obj_id = id THEN Tail(s)
    ELSE <<Head(s)>> \o RemoveFirst(Tail(s), id)

Range(s) == {s[i] : i \in 1..Len(s)}

\* ------------------------------------------------------------- repository
get_inventory_items_by_variant(inv, variant_id) ==
    SelectSeq(inv, LAMBDA i : i.variant_id = variant_id)

get_inventory_items_by_unit(inv, unit_id) ==
    SelectSeq(inv, LAMBDA i : i.unit_id = unit_id)

\* cart_id = 0 selects the reservations of every cart
get_reservations(res, variant_id, cart_id) ==
    IF cart_id = 0
    THEN SelectSeq(res, LAMBDA r : r.variant_id = variant_id)
    ELSE SelectSeq(res, LAMBDA r : r.cart_id = cart_id /\ r.variant_id = variant_id)

\* a lookup that finds no cart, whatever the table holds
get_cart_by_transaction_unseen(cs, transaction_id) == <<>>

get_cart_by_transaction(cs, transaction_id) ==
    SelectSeq(cs, LAMBDA c : c.transaction_id = transaction_id)

get_cart(cs, cart_id) ==
    SelectSeq(cs, LAMBDA c : c.obj_id = cart_id)

get_cart_items(items, cart_id) == {i \in items : i.cart_id = cart_id}

\* the first row of (cart, unit, location, variant) is updated, else a row is added
add_or_update_reservation(res, r) ==
    LET hits == {i \in 1..Len(res) : /\ res[i].cart_id = r.cart_id
                                     /\ res[i].unit_id = r.unit_id
                                     /\ res[i].location = r.location
                                     /\ res[i].variant_id = r.variant_id}
    IN  IF hits = {} THEN Append(res, r)
        ELSE LET i == CHOOSE k \in hits : \A m \in hits : k <= m
             IN  [res EXCEPT ![i].quantity = @ + r.quantity]

\* DELETE FROM cart WHERE id=?; the rows of cart_contents and reservation that
\* reference the cart are deleted with it only while the connection enforces
\* foreign keys
remove_cart_rows(cs, cart_id) == SelectSeq(cs, LAMBDA c : c.obj_id # cart_id)

cascade_cart_contents(items, cart_id, fk) ==
    IF fk THEN {i \in items : i.cart_id # cart_id} ELSE items

cascade_reservations(res, cart_id, fk) ==
    IF fk THEN SelectSeq(res, LAMBDA r : r.cart_id # cart_id) ELSE res

\* ------------------------------------------------------------- cart engine
_cancel_cart_expiration_tm(list, cart_id) == RemoveFirst(list, cart_id)

\* _set_prereservation_timer that never cancels the item it set before
_set_prereservation_timer_appended(list, cart_id, restart, t) ==
    Append(list, ExpirationItem(cart_id, t + PrereservationSeconds))

_set_prereservation_timer(list, cart_id, restart, t) ==
    Append(IF restart THEN _cancel_cart_expiration_tm(list, cart_id) ELSE list,
           ExpirationItem(cart_id, t + PrereservationSeconds))

\* the walk over the inventory slots of the variant; snapshot is the list of
\* reservations read before the walk
RECURSIVE ReserveWalk(_, _, _, _, _, _)
ReserveWalk(items, snapshot, res, cart_id, var_id, amount) ==
    IF items = <<>> THEN res
    ELSE LET item == Head(items)
             already_reserved ==
                 SumQuantity(SelectSeq(snapshot, LAMBDA r : /\ r.unit_id = item.unit_id
                                                            /\ r.location = item.location))
         IN  IF item.quantity - already_reserved >= amount
             THEN add_or_update_reservation(res,
                      Reservation(cart_id, var_id, item.unit_id, item.location, amount))
             ELSE IF item.quantity = already_reserved
             THEN ReserveWalk(Tail(items), snapshot, res, cart_id, var_id, amount)
             ELSE ReserveWalk(Tail(items), snapshot,
                      add_or_update_reservation(res,
                          Reservation(cart_id, var_id, item.unit_id, item.location,
                                      item.quantity - already_reserved)),
                      cart_id, var_id, amount - (item.quantity - already_reserved))

_do_reservation(inv, res, cart_id, var_id, amount) ==
    LET inv_items == get_inventory_items_by_variant(inv, var_id)
        snapshot == get_reservations(res, var_id, 0)
        quantity == SumQuantity(inv_items)
        reserved == SumQuantity(snapshot)
    IN  IF quantity > 0 /\ (quantity - reserved) >= amount
        THEN [ok |-> TRUE,
              reservations |-> ReserveWalk(inv_items, snapshot, res, cart_id, var_id, amount)]
        ELSE [ok |-> FALSE, reservations |-> res]

\* _cancel_reservation without the cart_id of the query: the walk takes the rows of
\* every cart
RECURSIVE _cancel_reservation_any_cart(_, _, _, _)
_cancel_reservation_any_cart(res, cart_id, var_id, amount) ==
    IF res = <<>> THEN <<>>
    ELSE LET r == Head(res)
         IN  IF r.variant_id # var_id
             THEN <<r>> \o _cancel_reservation_any_cart(Tail(res), cart_id, var_id, amount)
             ELSE IF r.quantity = amount THEN Tail(res)
             ELSE IF r.quantity < amount
             THEN _cancel_reservation_any_cart(Tail(res), cart_id, var_id,
                                               amount - r.quantity)
             ELSE <<[r EXCEPT !.quantity = @ - amount]>> \o Tail(res)

\* the walk over the cart's reservations of the variant, in row order
RECURSIVE _cancel_reservation(_, _, _, _)
_cancel_reservation(res, cart_id, var_id, amount) ==
    IF res = <<>> THEN <<>>
    ELSE LET r == Head(res)
         IN  IF r.cart_id # cart_id \/ r.variant_id # var_id
             THEN <<r>> \o _cancel_reservation(Tail(res), cart_id, var_id, amount)
             ELSE IF r.quantity = amount THEN Tail(res)
             ELSE IF r.quantity < amount
             THEN IF amount - r.quantity <= 0 THEN Tail(res)
                  ELSE _cancel_reservation(Tail(res), cart_id, var_id, amount - r.quantity)
             ELSE <<[r EXCEPT !.quantity = @ - amount]>> \o Tail(res)

NoOp == [op |-> "none", res |-> "", removed |-> {}]

InitialStatus(cart_type) == IF cart_type = "LOCAL" THEN "CREATED" ELSE "PRERESERVATION"

\* the rows and the list CartLogic.update works on
Store == [inventory |-> inventory, carts |-> carts, cart_contents |-> cart_contents,
          reservations |-> reservations, exp_list |-> exp_list,
          next_cart_id |-> next_cart_id]

\* CartLogic.update on the store st at time t: the store it leaves and its result.
\* db_error: the write of the cart item raises DbError.
update(st, t, transaction_id, display_id, cart_type, var_id, amount, db_error) ==
    LET found == get_cart_by_transaction(st.carts, transaction_id)
        is_new_cart == found = <<>>
        cart == IF is_new_cart
                THEN Cart(st.next_cart_id, display_id, transaction_id, cart_type,
                          InitialStatus(cart_type))
                ELSE Head(found)
        carts1 == IF is_new_cart THEN Append(st.carts, cart) ELSE st.carts
        exp1 == IF is_new_cart /\ cart.status = "PRERESERVATION"
                THEN _set_prereservation_timer(st.exp_list, cart.obj_id, FALSE, t)
                ELSE st.exp_list
        hit == {i \in get_cart_items(st.cart_contents, cart.obj_id) : i.variant_id = var_id}
        item == CHOOSE i \in hit : TRUE
        abs_amount == 0 - amount
        done == _do_reservation(st.inventory, st.reservations, cart.obj_id, var_id, amount)
        rows ==
            IF amount > 0
            THEN IF done.ok
                 THEN [res |-> IF db_error THEN "ERROR" ELSE "OK",
                       reservations |-> done.reservations,
                       contents |->
                           IF db_error THEN st.cart_contents
                           ELSE IF hit # {}
                           THEN (st.cart_contents \ {item}) \cup
                                    {[item EXCEPT !.amount = @ + amount]}
                           ELSE st.cart_contents \cup
                                    {[cart_id |-> cart.obj_id, variant_id |-> var_id,
                                      amount |-> amount]}]
                 ELSE [res |-> "NOK", reservations |-> st.reservations,
                       contents |-> st.cart_contents]
            ELSE IF hit # {} /\ item.amount >= abs_amount
                 THEN [res |-> IF db_error THEN "ERROR" ELSE "OK",
                       reservations |->
                           _cancel_reservation(st.reservations, cart.obj_id, var_id,
                                               abs_amount),
                       contents |->
                           IF db_error THEN st.cart_contents
                           ELSE IF item.amount - abs_amount > 0
                           THEN (st.cart_contents \ {item}) \cup
                                    {[item EXCEPT !.amount = @ - abs_amount]}
                           ELSE st.cart_contents \ {item}]
                 ELSE [res |-> "ERROR", reservations |-> st.reservations,
                       contents |-> st.cart_contents]
        exp2 == IF ~is_new_cart /\ cart.status = "PRERESERVATION" /\ rows.res = "OK"
                THEN _set_prereservation_timer(exp1, cart.obj_id, TRUE, t)
                ELSE exp1
    IN  IF amount = 0
        THEN [res |-> "ERROR", store |-> st, writes_item |-> FALSE]
        ELSE [res |-> rows.res,
              store |-> [inventory |-> st.inventory, carts |-> carts1,
                         cart_contents |-> rows.contents,
                         reservations |-> rows.reservations, exp_list |-> exp2,
                         next_cart_id |-> IF is_new_cart THEN st.next_cart_id + 1
                                          ELSE st.next_cart_id],
              writes_item |-> (amount > 0 /\ done.ok)
                              \/ (amount < 0 /\ hit # {} /\ item.amount >= abs_amount)]

\* the requests the model explores: they stay within the bounds
WithinBounds(st) ==
    /\ st.next_cart_id <= MaxCartId + 1
    /\ \A i \in st.cart_contents : i.amount <= MaxItemAmount
    /\ \A i \in 1..Len(st.reservations) : st.reservations[i].quantity >= 0 - MaxOverdraw

Update(transaction_id, display_id, cart_type, var_id, amount, db_error) ==
    LET out == update(Store, now, transaction_id, display_id, cart_type, var_id, amount,
                      db_error)
    IN  /\ WithinBounds(out.store)
        /\ db_error => out.writes_item
        /\ carts' = out.store.carts
        /\ reservations' = out.store.reservations
        /\ cart_contents' = out.store.cart_contents
        /\ exp_list' = out.store.exp_list
        /\ next_cart_id' = out.store.next_cart_id
        /\ last' = [NoOp EXCEPT !.op = "update", !.res = out.res]
        /\ posted' = <<>>
        /\ UNCHANGED <<inventory, order_history, next_rec_id, foreign_keys,
                       reservation_exp_list, order_hist_exp_list, exp_tm_tick_cnt,
                       planVars, event_q, now, sysVars>>

\* PUT cart of the REST server, on the REST thread
RestUpdate ==
    \E var_id \in Variants, amount \in Amounts, db_error \in BOOLEAN :
        Update(LocalTx, 1, "LOCAL", var_id, amount, db_error)

\* reservation topic, updateType "update", on the cart worker
ReservationUpdate ==
    \E var_id \in Variants, amount \in Amounts, db_error \in BOOLEAN :
        Update(RemoteTx, 0, "REMOTE", var_id, amount, db_error)

RemovedCart(cart, cause) ==
    [cart_id |-> cart.obj_id, transaction_id |-> cart.transaction_id,
     cart_type |-> cart.cart_type, cause |-> cause]

\* CartLogic.clear
Clear(transaction_id) ==
    LET found == get_cart_by_transaction(carts, transaction_id)
        cart == Head(found)
    IN  /\ posted' = <<>>
        /\ IF found = <<>>
           THEN /\ last' = [NoOp EXCEPT !.op = "clear", !.res = "ERROR"]
                /\ UNCHANGED <<dbVars, timerVars>>
           ELSE /\ exp_list' = _cancel_cart_expiration_tm(exp_list, cart.obj_id)
                /\ reservation_exp_list' =
                       IF cart.cart_type = "REMOTE"
                       THEN _cancel_cart_expiration_tm(reservation_exp_list, cart.obj_id)
                       ELSE reservation_exp_list
                /\ carts' = remove_cart_rows(carts, cart.obj_id)
                /\ cart_contents' = cascade_cart_contents(cart_contents, cart.obj_id,
                                                          foreign_keys)
                /\ reservations' = cascade_reservations(reservations, cart.obj_id,
                                                        foreign_keys)
                /\ last' = [NoOp EXCEPT !.op = "clear", !.res = "OK",
                                        !.removed = {RemovedCart(cart, "clear")}]
                /\ UNCHANGED <<inventory, order_history, next_cart_id, next_rec_id,
                               foreign_keys, order_hist_exp_list, exp_tm_tick_cnt>>
        /\ UNCHANGED <<planVars, event_q, now, sysVars>>

\* DELETE cart of the REST server; reservation topic, updateType "cancel"
ClearRequest == \E transaction_id \in TxIds : Clear(transaction_id)

\* CartLogic.prolong; reservation topic, updateType "prolong"
Prolong(transaction_id) ==
    LET found == get_cart_by_transaction(carts, transaction_id)
        cart == Head(found)
        valid == /\ found # <<>>
                 /\ cart.cart_type = "REMOTE"
                 /\ cart.status = "PRERESERVATION"
    IN  /\ exp_list' = IF valid
                       THEN _set_prereservation_timer(exp_list, cart.obj_id, TRUE, now)
                       ELSE exp_list
        /\ last' = [NoOp EXCEPT !.op = "prolong", !.res = IF valid THEN "OK" ELSE "ERROR"]
        /\ posted' = <<>>
        /\ UNCHANGED <<dbVars, reservation_exp_list, order_hist_exp_list, exp_tm_tick_cnt,
                       planVars, event_q, now, sysVars>>

ProlongRequest == Prolong(RemoteTx)

\* reserve without the test of the cart type
reservable_any_type(cart) == TRUE

\* the carts reserve accepts
reservable(cart) == cart.cart_type = "REMOTE"

\* CartLogic.reserve
reserve(transaction_id, order_info) ==
    LET found == get_cart_by_transaction(carts, transaction_id)
        cart == Head(found)
        valid == found # <<>> /\ reservable(cart)
        updated == [cart EXCEPT !.order_info = order_info, !.status = "RESERVED",
                                !.locked_at = now]
    IN  /\ posted' = <<>>
        /\ last' = [NoOp EXCEPT !.op = "reserve", !.res = IF valid THEN "OK" ELSE "ERROR"]
        /\ IF valid
           THEN /\ exp_list' = _cancel_cart_expiration_tm(exp_list, cart.obj_id)
                /\ carts' = [i \in 1..Len(carts) |->
                                IF carts[i].obj_id = cart.obj_id THEN updated ELSE carts[i]]
                /\ reservation_exp_list' =
                       Append(reservation_exp_list,
                              ExpirationItem(cart.obj_id, now + ReservationMinutes * SecPerMin))
           ELSE UNCHANGED <<exp_list, carts, reservation_exp_list>>
        /\ UNCHANGED <<inventory, cart_contents, reservations, order_history, next_cart_id,
                       next_rec_id, foreign_keys, order_hist_exp_list, exp_tm_tick_cnt,
                       planVars, event_q, now, sysVars>>

\* reservation topic, updateType "confirm", while the reservation list has room
Reserve(transaction_id, order_info) ==
    /\ Len(reservation_exp_list) < MaxTimers
    /\ reserve(transaction_id, order_info)

ReserveRequest == Reserve(RemoteTx, "P1")

Tick ==
    /\ now < MaxTime
    /\ now' = now + 1
    /\ last' = [NoOp EXCEPT !.op = "tick"]
    /\ posted' = <<>>
    /\ UNCHANGED <<dbVars, timerVars, planVars, event_q, sysVars>>

\* CartLogic.dispense
Dispense(transaction_id, display_id) ==
    LET found == get_cart_by_transaction(carts, transaction_id)
        cart == Head(found)
        valid == found # <<>> /\ get_cart_items(cart_contents, cart.obj_id) # {}
    IN  /\ posted' = <<>>
        /\ last' = [NoOp EXCEPT !.op = "dispense", !.res = IF valid THEN "OK" ELSE "ERROR"]
        /\ IF valid
           THEN /\ exp_list' = _cancel_cart_expiration_tm(exp_list, cart.obj_id)
                /\ IF cart.cart_type = "REMOTE"
                   THEN /\ reservation_exp_list' =
                               _cancel_cart_expiration_tm(reservation_exp_list, cart.obj_id)
                        /\ carts' = [i \in 1..Len(carts) |->
                                        IF carts[i].obj_id = cart.obj_id
                                        THEN [cart EXCEPT !.display_id = display_id]
                                        ELSE carts[i]]
                   ELSE UNCHANGED <<reservation_exp_list, carts>>
           ELSE UNCHANGED <<exp_list, reservation_exp_list, carts>>
        /\ UNCHANGED <<inventory, cart_contents, reservations, order_history, next_cart_id,
                       next_rec_id, foreign_keys, order_hist_exp_list, exp_tm_tick_cnt,
                       planVars, event_q, now, sysVars>>

\* pickup of the REST server
DispenseRequest == \E transaction_id \in TxIds : Dispense(transaction_id, 1)

\* the tables and the lists the sweeps and the PURCHASE_FINISHED handler work on,
\* with what they have posted and removed so far; kept: the items of the list
\* under the walk that are not erased; failed: a DbError ended the walk
Rows == [carts |-> carts, cart_contents |-> cart_contents, reservations |-> reservations,
         order_history |-> order_history, next_rec_id |-> next_rec_id,
         order_hist_exp_list |-> order_hist_exp_list, posted |-> <<>>, removed |-> {},
         kept |-> <<>>, failed |-> FALSE]

remove_cart(rows, cart, fk, cause) ==
    [rows EXCEPT !.carts = remove_cart_rows(@, cart.obj_id),
                 !.cart_contents = cascade_cart_contents(@, cart.obj_id, fk),
                 !.reservations = cascade_reservations(@, cart.obj_id, fk),
                 !.removed = @ \cup {RemovedCart(cart, cause)}]

add_order_history_record(rows, cart, status, t) ==
    [rows EXCEPT !.order_history =
                     Append(@, OrderHistoryRecord(rows.next_rec_id, cart.transaction_id,
                                                  cart.order_info, status, t)),
                 !.next_rec_id = @ + 1,
                 !.order_hist_exp_list =
                     Append(@, ExpirationItem(rows.next_rec_id,
                                              t + OrderHistoryMinutes * SecPerMin))]

ReservationCompleted(cart, status) ==
    Event("RESERVATION_COMPLETED",
          [transaction_id |-> cart.transaction_id, status |-> status])

\* _exp_list_process, first part: the short timers
RECURSIVE ShortTimers(_, _, _, _)
ShortTimers(items, rows, fk, t) ==
    IF items = <<>> THEN rows
    ELSE LET exp_item == Head(items)
             found == get_cart(rows.carts, exp_item.obj_id)
             cart == Head(found)
         IN  IF ~(t > exp_item.exp_at)
             THEN ShortTimers(Tail(items), [rows EXCEPT !.kept = Append(@, exp_item)], fk, t)
             ELSE IF found = <<>>
             THEN ShortTimers(Tail(items), rows, fk, t)
             ELSE ShortTimers(Tail(items),
                      remove_cart([rows EXCEPT !.posted =
                                       IF cart.status = "PRERESERVATION"
                                       THEN Append(@, ReservationCompleted(cart, "EXPIRED"))
                                       ELSE @],
                                  cart, fk, "prereservation"),
                      fk, t)

\* _exp_list_process, second part: the reservation timers.  db_error: the INSERT of
\* the order history record raises DbError, which ends the sweep.
RECURSIVE ReservationTimers(_, _, _, _, _)
ReservationTimers(items, rows, fk, t, db_error) ==
    IF items = <<>> THEN rows
    ELSE LET exp_item == Head(items)
             found == get_cart(rows.carts, exp_item.obj_id)
             cart == Head(found)
             announced == [rows EXCEPT !.posted =
                                          Append(@, ReservationCompleted(cart, "EXPIRED"))]
         IN  IF ~(t > exp_item.exp_at)
             THEN ReservationTimers(Tail(items), [rows EXCEPT !.kept = Append(@, exp_item)],
                                    fk, t, db_error)
             ELSE IF found = <<>>
             THEN ReservationTimers(Tail(items), rows, fk, t, db_error)
             ELSE IF db_error
             THEN [announced EXCEPT !.failed = TRUE]
             ELSE ReservationTimers(Tail(items),
                      remove_cart(add_order_history_record(announced, cart, "EXPIRED", t),
                                  cart, fk, "reservation"),
                      fk, t, db_error)

\* _exp_list_process, the order history timers
OrderHistoryTimers(rows, t) ==
    LET expired == {i \in Range(rows.order_hist_exp_list) : t > i.exp_at}
    IN  [rows EXCEPT !.order_history =
                         SelectSeq(@, LAMBDA r : \A i \in expired : i.obj_id # r.obj_id),
                     !.order_hist_exp_list = SelectSeq(@, LAMBDA i : ~(t > i.exp_at))]

\* CartLogic._exp_list_process, the periodic task
Sweep(db_error) ==
    LET short == ShortTimers(exp_list, Rows, foreign_keys, now)
        cnt == exp_tm_tick_cnt + 1
        due == cnt >= EXP_TM_TICKS_IN_MINUTE
        long == ReservationTimers(reservation_exp_list, [short EXCEPT !.kept = <<>>],
                                  foreign_keys, now, db_error)
        out == IF ~due THEN short
               ELSE IF long.failed THEN long
               ELSE OrderHistoryTimers(long, now)
    IN  /\ db_error => due /\ long.failed
        /\ exp_list' = short.kept
        /\ exp_tm_tick_cnt' = IF due THEN 0 ELSE cnt
        /\ reservation_exp_list' = IF due /\ ~long.failed THEN long.kept
                                   ELSE reservation_exp_list
        /\ order_hist_exp_list' = out.order_hist_exp_list
        /\ carts' = out.carts
        /\ cart_contents' = out.cart_contents
        /\ reservations' = out.reservations
        /\ order_history' = out.order_history
        /\ next_rec_id' = out.next_rec_id
        /\ posted' = out.posted
        /\ last' = [NoOp EXCEPT !.op = "sweep", !.res = IF out.failed THEN "ERROR" ELSE "OK",
                                !.removed = out.removed]
        /\ UNCHANGED <<inventory, next_cart_id, foreign_keys, planVars, event_q, now, sysVars>>

ExpirationTimer == \E db_error \in BOOLEAN : Sweep(db_error)

\* CartLogic._process_purchase_finished.  db_error: the INSERT of the order history
\* record raises DbError.
PurchaseFinished(cart_id, db_error) ==
    LET found == get_cart(carts, cart_id)
        cart == Head(found)
        remote == found # <<>> /\ cart.cart_type = "REMOTE"
        announced == [Rows EXCEPT !.posted = Append(@, Event("RESERVATION_COMPLETED",
                                                             "DISPENSED"))]
        out == IF found = <<>> THEN Rows
               ELSE IF ~remote THEN remove_cart(Rows, cart, foreign_keys, "purchase")
               ELSE IF db_error THEN [announced EXCEPT !.failed = TRUE]
               ELSE remove_cart(add_order_history_record(announced, cart, "DISPENSED", now),
                                cart, foreign_keys, "purchase")
    IN  /\ db_error => remote
        /\ carts' = out.carts
        /\ cart_contents' = out.cart_contents
        /\ reservations' = out.reservations
        /\ order_history' = out.order_history
        /\ next_rec_id' = out.next_rec_id
        /\ order_hist_exp_list' = out.order_hist_exp_list
        /\ posted' = out.posted
        /\ last' = [NoOp EXCEPT !.op = "purchase_finished",
                                !.res = IF out.failed THEN "ERROR" ELSE "OK",
                                !.removed = out.removed]
        /\ UNCHANGED <<inventory, next_cart_id, foreign_keys, exp_list, reservation_exp_list,
                       exp_tm_tick_cnt, planVars, event_q, now, sysVars>>

\* PURCHASE_FINISHED {cart_id} from the bus
PurchaseFinishedEvent ==
    \E cart_id \in 1..MaxCartId, db_error \in BOOLEAN : PurchaseFinished(cart_id, db_error)

\* ------------------------------------------------------------- planogram
SlotOf(item) ==
    Slot(item.tray_number, item.location, item.variant_id, item.width, item.depth)

\* PlanogramLogic.start: the current planogram is built from the inventory
PlanogramStart(inv) ==
    [unit_id \in 1..MAX_UNITS |->
        LET inv_items == get_inventory_items_by_unit(inv, unit_id)
        IN  IF inv_items = <<>> THEN None
            ELSE Trays([i \in 1..Len(inv_items) |-> SlotOf(inv_items[i])])]

NoPlanogram == [unit_id \in 1..MAX_UNITS |-> None]

TrayNumbers(trays) == {s.tray_number : s \in Range(trays)}
TrayLocations(trays, k) == {s.location : s \in {x \in Range(trays) : x.tray_number = k}}
SlotAt(trays, k, loc) == CHOOSE s \in Range(trays) : s.tray_number = k /\ s.location = loc
HasSlot(trays, k, loc) == k \in TrayNumbers(trays) /\ loc \in TrayLocations(trays, k)

_compare_planogram_trays(current_trays, new_trays) ==
    /\ TrayNumbers(current_trays) = TrayNumbers(new_trays)
    /\ \A k \in TrayNumbers(current_trays) :
           /\ TrayLocations(current_trays, k) = TrayLocations(new_trays, k)
           /\ \A loc \in TrayLocations(current_trays, k) :
                  SlotAt(current_trays, k, loc) = SlotAt(new_trays, k, loc)

SlotsCount(trays, var_id) == Cardinality({i \in 1..Len(trays) : trays[i].variant_id = var_id})

_validate_new_planogram_against_reservations(cs, items, current, staged, new_variant_ids) ==
    LET active == {c \in Range(cs) : /\ c.cart_type = "REMOTE"
                                      /\ c.status \in {"PRERESERVATION", "RESERVED"}}
        reserved_variants == {i.variant_id : i \in {x \in items :
                                  \E c \in active : c.obj_id = x.cart_id}}
    IN  IF \E v \in reserved_variants : v \notin new_variant_ids
        THEN [status |-> FALSE, reason |-> "RESERVED_PRODUCT_ABSENT"]
        ELSE IF \E v \in reserved_variants, unit_id \in 1..MAX_UNITS :
                    SlotsCount(current[unit_id].slots, v) > SlotsCount(staged[unit_id].slots, v)
        THEN [status |-> FALSE, reason |-> "RESERVED_PRODUCT_OCCUPIES_LESS_SLOTS"]
        ELSE [status |-> TRUE, reason |-> "NO_REASON"]

Idle == [active |-> FALSE, writes |-> <<>>, before |-> <<>>, after |-> <<>>]

\* the staged buffers of PlanogramLogic
Buffers(planogram, variants) == [new_planogram |-> planogram, new_variants |-> variants]

\* the course of one run of _planogram_updated_event_handler: the Cloud answers
\* and the comparison is called as it was meant; the comparison raises TypeError
\* (a staticmethod declared with self and called with two arguments) after the
\* layout was staged and before the catalog is; the GET of the planogram fails
NotificationOutcomes == {"ok", "type_error", "cloud_error"}

\* PlanogramLogic._planogram_updated_event_handler, from the staged buffers it
\* finds: the buffers it leaves and the events it posts.  layout and variant_ids
\* are the planogram and the catalog the Cloud returns.
_planogram_updated_event_handler(buffers, layout, variant_ids, outcome) ==
    LET staged == [unit_id \in 1..MAX_UNITS |-> Trays(layout)]
        is_equal == \A unit_id \in 1..MAX_UNITS :
                        _compare_planogram_trays(current_planogram[unit_id].slots,
                                                 staged[unit_id].slots)
        verdict == _validate_new_planogram_against_reservations(
                       carts, cart_contents, current_planogram, staged, variant_ids)
        failed == <<Event("PLANOGRAM_UPDATE_FAILED", <<>>)>>
    IN  IF outcome = "cloud_error"
        THEN [buffers |-> buffers, posted |-> failed]
        ELSE IF outcome = "type_error"
        THEN [buffers |-> Buffers(staged, buffers.new_variants), posted |-> failed]
        ELSE [buffers |-> Buffers(staged, variant_ids),
              posted |-> IF is_equal THEN <<Event("PLANOGRAM_IS_UP_TO_DATE", <<>>)>>
                         ELSE <<Event("NEW_PLANOGRAM_AVAILABLE", verdict)>>]

\* the handler on the planogram worker
Notification(layout, variant_ids, outcome) ==
    LET out == _planogram_updated_event_handler(Buffers(new_planogram, new_variants),
                                                layout, variant_ids, outcome)
    IN  /\ ~commit.active
        /\ \A unit_id \in 1..MAX_UNITS : ~current_planogram[unit_id].none
        /\ new_planogram' = out.buffers.new_planogram
        /\ new_variants' = out.buffers.new_variants
        /\ posted' = out.posted
        /\ last' = [NoOp EXCEPT !.op = "planogram_updated",
                                !.res = IF outcome = "ok" THEN "" ELSE "ERROR"]
        /\ UNCHANGED <<dbVars, timerVars, current_planogram, commit, event_q, now, sysVars>>

PlanogramUpdated(layout, variant_ids) == Notification(layout, variant_ids, "ok")

PlanogramUpdatedRaises(layout) == Notification(layout, {}, "type_error")

\* the GET of the planogram fails: nothing is staged and the failure is posted
PlanogramUpdateFailed == Notification(<<>>, {}, "cloud_error")

\* the DB calls of _apply_new_planogram for a unit, in the order it issues them
RECURSIVE AddedAndUpdated(_, _, _)
AddedAndUpdated(unit_id, curr_trays, slots) ==
    IF slots = <<>> THEN <<>>
    ELSE LET slot == Head(slots)
             item == InventoryItem(unit_id, slot.tray_number, slot.location, slot.variant_id,
                                   slot.width, slot.depth, 0)
             rest == AddedAndUpdated(unit_id, curr_trays, Tail(slots))
         IN  IF ~HasSlot(curr_trays, slot.tray_number, slot.location)
             THEN <<[op |-> "add", item |-> item]>> \o rest
             ELSE IF SlotAt(curr_trays, slot.tray_number, slot.location) # slot
             THEN <<[op |-> "update", item |-> item]>> \o rest
             ELSE rest

RECURSIVE Removed(_, _, _)
Removed(unit_id, new_trays, slots) ==
    IF slots = <<>> THEN <<>>
    ELSE LET slot == Head(slots)
             item == InventoryItem(unit_id, slot.tray_number, slot.location, slot.variant_id,
                                   slot.width, slot.depth, 0)
             rest == Removed(unit_id, new_trays, Tail(slots))
         IN  IF ~HasSlot(new_trays, slot.tray_number, slot.location)
             THEN <<[op |-> "remove", item |-> item]>> \o rest
             ELSE rest

RECURSIVE Writes(_, _, _)
Writes(unit_id, current, staged) ==
    IF unit_id > MAX_UNITS THEN <<>>
    ELSE AddedAndUpdated(unit_id, current[unit_id].slots, staged[unit_id].slots)
         \o Removed(unit_id, staged[unit_id].slots, current[unit_id].slots)
         \o Writes(unit_id + 1, current, staged)

SameKey(a, b) ==
    a.unit_id = b.unit_id /\ a.tray_number = b.tray_number /\ a.location = b.location

\* add_inventory_item, update_inventory_item, remove_inventory_item
ApplyWrite(inv, w) ==
    IF w.op = "add" THEN Append(inv, w.item)
    ELSE IF w.op = "update"
    THEN [i \in 1..Len(inv) |-> IF SameKey(inv[i], w.item) THEN w.item ELSE inv[i]]
    ELSE SelectSeq(inv, LAMBDA i : ~SameKey(i, w.item))

RECURSIVE ApplyWrites(_, _)
ApplyWrites(inv, ws) ==
    IF ws = <<>> THEN inv ELSE ApplyWrites(ApplyWrite(inv, Head(ws)), Tail(ws))

\* NEW_PLANOGRAM_APPLY reaches the planogram worker: _apply_new_planogram begins
ApplyPlanogram ==
    LET writes == Writes(1, current_planogram, new_planogram)
    IN  /\ ~commit.active
        /\ Len(event_q) < MaxPending
        /\ \A unit_id \in 1..MAX_UNITS :
               ~current_planogram[unit_id].none /\ ~new_planogram[unit_id].none
        /\ commit' = [active |-> TRUE, writes |-> writes, before |-> inventory,
                      after |-> ApplyWrites(inventory, writes)]
        /\ posted' = <<>>
        /\ last' = [NoOp EXCEPT !.op = "apply"]
        /\ UNCHANGED <<dbVars, timerVars, current_planogram, new_planogram, new_variants,
                       event_q, now, sysVars>>

\* one DB call of _apply_new_planogram, committed on its own; a DbError ends the
\* method: nothing is swapped and nothing is posted.  The INSERT of a slot whose
\* key (unit, tray, location) is already in the table raises it.
ApplyStep(db_error) ==
    LET w == Head(commit.writes)
        raises == db_error \/ (w.op = "add" /\ \E i \in Range(inventory) : SameKey(i, w.item))
    IN  /\ commit.active
        /\ commit.writes # <<>>
        /\ IF raises
           THEN commit' = Idle /\ UNCHANGED inventory
           ELSE /\ inventory' = ApplyWrite(inventory, w)
                /\ commit' = [commit EXCEPT !.writes = Tail(@)]
        /\ posted' = <<>>
        /\ last' = [NoOp EXCEPT !.op = "apply_step", !.res = IF raises THEN "ERROR" ELSE "OK"]
        /\ UNCHANGED <<carts, cart_contents, reservations, order_history, next_cart_id,
                       next_rec_id, foreign_keys, timerVars, current_planogram, new_planogram,
                       new_variants, event_q, now, sysVars>>

ApplyNextWrite == \E db_error \in BOOLEAN : ApplyStep(db_error)

\* the end of _apply_new_planogram: current <- staged, PLANOGRAM_UPDATE_DONE, which
\* CartLogic._event_handler turns into PLANOGRAM_WAS_UPDATED on the cart queue
ApplyFinish ==
    /\ commit.active
    /\ commit.writes = <<>>
    /\ current_planogram' = new_planogram
    /\ new_planogram' = NoPlanogram
    /\ commit' = Idle
    /\ posted' = <<Event("PLANOGRAM_UPDATE_DONE", <<>>)>>
    /\ event_q' = Append(event_q, CartEvent("PLANOGRAM_WAS_UPDATED", 0))
    /\ last' = [NoOp EXCEPT !.op = "apply_finish", !.res = "OK"]
    /\ UNCHANGED <<dbVars, timerVars, new_variants, now, sysVars>>

\* a reject that empties the staged planogram and leaves the staged catalog
new_planogram_reject_keeps_catalog(buffers) == Buffers(NoPlanogram, buffers.new_variants)

\* PlanogramLogic._event_handler, NEW_PLANOGRAM_REJECT: the buffers it leaves
new_planogram_reject(buffers) == Buffers(NoPlanogram, {})

\* NEW_PLANOGRAM_REJECT, handled on the dispatcher thread
RejectPlanogram ==
    /\ new_planogram' = new_planogram_reject(Buffers(new_planogram, new_variants)).new_planogram
    /\ new_variants' = new_planogram_reject(Buffers(new_planogram, new_variants)).new_variants
    /\ posted' = <<>>
    /\ last' = [NoOp EXCEPT !.op = "reject"]
    /\ UNCHANGED <<dbVars, timerVars, current_planogram, commit, event_q, now, sysVars>>

\* ------------------------------------------------------------- relocation
RECURSIVE SetToSeq(_)
SetToSeq(S) ==
    IF S = {} THEN <<>>
    ELSE LET m == CHOOSE x \in S : \A y \in S : x <= y
         IN  <<m>> \o SetToSeq(S \ {m})

\* var_locations[var_id]: its units, and per unit the locations in row order
VarUnits(inv, var_id) ==
    {i.unit_id : i \in Range(get_inventory_items_by_variant(inv, var_id))}

VarLocations(inv, var_id, unit_id) ==
    LET items == SelectSeq(get_inventory_items_by_variant(inv, var_id),
                           LAMBDA i : i.unit_id = unit_id)
    IN  [k \in 1..Len(items) |-> items[k].location]

\* first pass: the locations that did not change
RECURSIVE FirstPass(_, _, _, _)
FirstPass(res, idxs, inv, var_id) ==
    IF idxs = <<>> THEN <<>>
    ELSE LET r == res[Head(idxs)]
             rest == FirstPass(res, Tail(idxs), inv, var_id)
         IN  IF /\ r.unit_id \in VarUnits(inv, var_id)
                /\ r.location \in Range(VarLocations(inv, var_id, r.unit_id))
             THEN <<r.location>> \o rest
             ELSE rest

\* second pass: the changed locations; key_error: var_locations has no entry for
\* the unit of a reservation
RECURSIVE SecondPass(_, _, _, _, _)
SecondPass(res, idxs, inv, var_id, used_locations) ==
    IF idxs = <<>> THEN [reservations |-> res, key_error |-> FALSE]
    ELSE LET i == Head(idxs)
             r == res[i]
             locs == VarLocations(inv, var_id, r.unit_id)
             free == {k \in 1..Len(locs) : locs[k] \notin Range(used_locations)}
             loc == locs[CHOOSE k \in free : \A m \in free : k <= m]
         IN  IF r.unit_id \notin VarUnits(inv, var_id)
             THEN [reservations |-> res, key_error |-> TRUE]
             ELSE IF r.location \in Range(locs) \/ free = {}
             THEN SecondPass(res, Tail(idxs), inv, var_id, used_locations)
             ELSE SecondPass([res EXCEPT ![i].location = loc], Tail(idxs), inv, var_id,
                             Append(used_locations, loc))

\* the (cart, variant) pairs in the order the handler visits them
RECURSIVE CartVariantPairs(_, _)
CartVariantPairs(cs, items) ==
    IF cs = <<>> THEN <<>>
    ELSE LET cart_id == Head(cs).obj_id
             vs == SetToSeq({i.variant_id : i \in get_cart_items(items, cart_id)})
         IN  [k \in 1..Len(vs) |-> <<cart_id, vs[k]>>] \o CartVariantPairs(Tail(cs), items)

RECURSIVE Relocate(_, _, _)
Relocate(pairs, res, inv) ==
    IF pairs = <<>> THEN res
    ELSE LET cart_id == Head(pairs)[1]
             var_id == Head(pairs)[2]
             idxs == SetToSeq({i \in 1..Len(res) : /\ res[i].cart_id = cart_id
                                                   /\ res[i].variant_id = var_id})
             out == SecondPass(res, idxs, inv, var_id, FirstPass(res, idxs, inv, var_id))
         IN  IF out.key_error THEN out.reservations
             ELSE Relocate(Tail(pairs), out.reservations, inv)

_handle_planogram_updated(cs, items, res, inv) ==
    Relocate(CartVariantPairs(cs, items), res, inv)

\* the cart worker takes PLANOGRAM_WAS_UPDATED from its queue
HandlePlanogramUpdated ==
    /\ event_q # <<>>
    /\ Head(event_q).type = "PLANOGRAM_WAS_UPDATED"
    /\ event_q' = Tail(event_q)
    /\ reservations' = _handle_planogram_updated(carts, cart_contents, reservations,
                                                 inventory)
    /\ posted' = <<>>
    /\ last' = [NoOp EXCEPT !.op = "planogram_was_updated"]
    /\ UNCHANGED <<inventory, carts, cart_contents, order_history, next_cart_id, next_rec_id,
                   foreign_keys, timerVars, planVars, now, sysVars>>

\* ------------------------------------------------------------- restart
\* the carts of _on_startup with the deadlines compared inclusively: a cart whose
\* window ends at t is kept
RECURSIVE StartupCarts_inclusive(_, _, _)
StartupCarts_inclusive(cs, rows, t) ==
    IF cs = <<>> THEN rows
    ELSE LET cart == Head(cs)
             passed_sec == t - cart.locked_at
             passed_min == passed_sec \div SecPerMin
         IN  IF /\ cart.cart_type = "REMOTE" /\ cart.status = "RESERVED"
                /\ passed_sec <= ReservationMinutes * SecPerMin
             THEN StartupCarts_inclusive(Tail(cs),
                      [rows EXCEPT !.reservation_exp_list =
                           Append(@, ExpirationItem(cart.obj_id,
                                      t + (ReservationMinutes - passed_min) * SecPerMin))],
                      t)
             ELSE IF cart.status = "CHECKOUT" /\ passed_sec <= ExpirationSeconds
             THEN StartupCarts_inclusive(Tail(cs),
                      [rows EXCEPT !.exp_list =
                           Append(@, ExpirationItem(cart.obj_id,
                                                    t + (ExpirationSeconds - passed_sec)))],
                      t)
             ELSE StartupCarts_inclusive(Tail(cs),
                      remove_cart(rows, cart, FALSE,
                                  IF cart.cart_type = "REMOTE" /\ cart.status = "RESERVED"
                                  THEN "startup_expired" ELSE "startup_obsolete"),
                      t)

\* the carts of CartLogic._on_startup, in row order
RECURSIVE StartupCarts(_, _, _)
StartupCarts(cs, rows, t) ==
    IF cs = <<>> THEN rows
    ELSE LET cart == Head(cs)
             passed_sec == t - cart.locked_at
             passed_min == passed_sec \div SecPerMin
         IN  IF /\ cart.cart_type = "REMOTE" /\ cart.status = "RESERVED"
                /\ passed_min < ReservationMinutes
             THEN StartupCarts(Tail(cs),
                      [rows EXCEPT !.reservation_exp_list =
                           Append(@, ExpirationItem(cart.obj_id,
                                      t + (ReservationMinutes - passed_min) * SecPerMin))],
                      t)
             ELSE IF cart.status = "CHECKOUT" /\ passed_sec < ExpirationSeconds
             THEN StartupCarts(Tail(cs),
                      [rows EXCEPT !.exp_list =
                           Append(@, ExpirationItem(cart.obj_id,
                                                    t + (ExpirationSeconds - passed_sec)))],
                      t)
             ELSE StartupCarts(Tail(cs),
                      remove_cart(rows, cart, FALSE,
                                  IF cart.cart_type = "REMOTE" /\ cart.status = "RESERVED"
                                  THEN "startup_expired" ELSE "startup_obsolete"),
                      t)

\* the order history records of CartLogic._on_startup
RECURSIVE StartupRecords(_, _, _)
StartupRecords(recs, rows, t) ==
    IF recs = <<>> THEN rows
    ELSE LET rec == Head(recs)
             passed_min == (t - rec.created_at) \div SecPerMin
         IN  IF passed_min < OrderHistoryMinutes
             THEN StartupRecords(Tail(recs),
                      [rows EXCEPT !.order_hist_exp_list =
                           Append(@, ExpirationItem(rec.obj_id,
                                      t + (OrderHistoryMinutes - passed_min) * SecPerMin))],
                      t)
             ELSE StartupRecords(Tail(recs),
                      [rows EXCEPT !.order_history =
                           SelectSeq(@, LAMBDA r : r.obj_id # rec.obj_id)],
                      t)

_on_startup(t) ==
    LET fresh == [carts |-> carts, cart_contents |-> cart_contents,
                  reservations |-> reservations, order_history |-> order_history,
                  exp_list |-> <<>>, reservation_exp_list |-> <<>>,
                  order_hist_exp_list |-> <<>>, removed |-> {}]
    IN  StartupRecords(order_history, StartupCarts(carts, fresh, t), t)

\* the process stops and starts again on its database: Database.start opens the
\* connection without the foreign_keys pragma, the modules are constructed anew,
\* CartLogic.start runs _on_startup and PlanogramLogic.start rebuilds the current
\* planogram
Restart ==
    LET out == _on_startup(now)
    IN  /\ foreign_keys' = FALSE
        /\ carts' = out.carts
        /\ cart_contents' = out.cart_contents
        /\ reservations' = out.reservations
        /\ order_history' = out.order_history
        /\ exp_list' = out.exp_list
        /\ reservation_exp_list' = out.reservation_exp_list
        /\ order_hist_exp_list' = out.order_hist_exp_list
        /\ exp_tm_tick_cnt' = 0
        /\ event_q' = <<>>
        /\ current_planogram' = PlanogramStart(inventory)
        /\ new_planogram' = NoPlanogram
        /\ new_variants' = {}
        /\ commit' = Idle
        /\ posted' = <<>>
        /\ last' = [NoOp EXCEPT !.op = "startup", !.removed = out.removed]
        /\ UNCHANGED <<inventory, next_cart_id, next_rec_id, now, sysVars>>

\* ------------------------------------------------------------- transaction
\* the transaction ids the Cloud API "transaction" answers with
CloudTxIds == {"T1", "T2"}
AllTxIds == TxIds \cup CloudTxIds

BeginTransactionResponse(cart_id, success) ==
    Event("BEGIN_TRANSACTION_RESPONSE", [cart_id |-> cart_id, success |-> success])

\* the REST server asks for the transaction id of the display's cart: it posts
\* BEGIN_TRANSACTION_REQUEST {cart_id}, which CartLogic._event_handler puts on the
\* cart queue
BeginTransactionRequest ==
    LET found == get_cart_by_transaction(carts, LocalTx)
        cart_id == Head(found).obj_id
    IN  /\ found # <<>>
        /\ Len(event_q) < MaxPending
        /\ event_q' = Append(event_q, CartEvent("BEGIN_TRANSACTION", cart_id))
        /\ posted' = <<Event("BEGIN_TRANSACTION_REQUEST", [cart_id |-> cart_id])>>
        /\ last' = [NoOp EXCEPT !.op = "begin_transaction_request"]
        /\ UNCHANGED <<dbVars, timerVars, planVars, now, sysVars>>

\* what the POST to the Cloud and the write of the cart can end with
Outcomes == {"ok", "cloud_error", "db_error"}

\* CartLogic._begin_transaction on the cart worker.  outcome: the Cloud answers
\* with transaction_id ("ok"), the call raises a CloudApi error or the answer has
\* no transactionId ("cloud_error"), update_cart raises DbError ("db_error").
\* A return inside the try block is followed by the finally block.
_begin_transaction(cart_id, outcome, transaction_id) ==
    LET found == get_cart(carts, cart_id)
        cart == Head(found)
        returns_early == found = <<>> \/ get_cart_items(cart_contents, cart_id) = {}
        is_ok == ~returns_early /\ outcome = "ok"
        updated == [cart EXCEPT !.transaction_id = transaction_id, !.status = "CHECKOUT",
                                !.locked_at = now]
    IN  /\ carts' = IF is_ok
                    THEN [i \in 1..Len(carts) |->
                             IF carts[i].obj_id = cart_id THEN updated ELSE carts[i]]
                    ELSE carts
        /\ exp_list' = IF is_ok
                       THEN Append(exp_list, ExpirationItem(cart_id, now + ExpirationSeconds))
                       ELSE exp_list
        /\ posted' = (IF returns_early
                      THEN <<BeginTransactionResponse(cart_id, FALSE)>> ELSE <<>>)
                     \o (IF ~is_ok
                         THEN <<BeginTransactionResponse(cart_id, FALSE)>> ELSE <<>>)
        /\ last' = [NoOp EXCEPT !.op = "begin_transaction",
                                !.res = IF is_ok THEN "OK" ELSE "ERROR"]
        /\ UNCHANGED <<inventory, cart_contents, reservations, order_history, next_cart_id,
                       next_rec_id, foreign_keys, reservation_exp_list, order_hist_exp_list,
                       exp_tm_tick_cnt, planVars, now, sysVars>>

\* the cart worker takes BEGIN_TRANSACTION from its queue; the Cloud issues an id
\* that no live cart carries
BeginTransaction ==
    /\ event_q # <<>>
    /\ Head(event_q).type = "BEGIN_TRANSACTION"
    /\ event_q' = Tail(event_q)
    /\ \E outcome \in Outcomes, transaction_id \in CloudTxIds :
           /\ get_cart_by_transaction(carts, transaction_id) = <<>>
           /\ _begin_transaction(Head(event_q).cart_id, outcome, transaction_id)

\* ------------------------------------------------------------- event bus
\* EventBus.MAX_NUM_..._PRIO_EVENTS_PER_TIME, 15, 10 and 5 in the source (scaled)
MAX_NUM_HIGH_PRIO_EVENTS_PER_TIME == 3
MAX_NUM_NORMAL_PRIO_EVENTS_PER_TIME == 2
MAX_NUM_LOW_PRIO_EVENTS_PER_TIME == 1

Priorities == {"high", "normal", "low"}
Rank(priority) == CASE priority = "high" -> 3 [] priority = "normal" -> 2 [] OTHER -> 1

PerTime(priority) ==
    CASE priority = "high" -> MAX_NUM_HIGH_PRIO_EVENTS_PER_TIME
      [] priority = "normal" -> MAX_NUM_NORMAL_PRIO_EVENTS_PER_TIME
      [] OTHER -> MAX_NUM_LOW_PRIO_EVENTS_PER_TIME

\* an event on the bus: id is the identity of the Event object, the position of
\* its post among all posts
BusEvent(id, type, priority) == [id |-> id, type |-> type, priority |-> priority]

\* EventBus._subscriptions after the modules have started, in the order of the
\* subscribe calls: PlanogramLogic, CartLogic, the servers of the UI, MachineLogic
\* (KioskBackend.start)
_subscriptions(type) ==
    CASE type = "PLANOGRAM_UPDATE_DONE" -> <<"logic.cart", "logic.machine">>
      [] type = "DOOR_STATE_CHANGED" -> <<"logic.machine">>
      [] type = "MACHINE_STATE_CHANGED" -> <<"ui.ws_server">>
      [] OTHER -> <<>>

\* the event types the modules post from outside the dispatcher
PostedTypes == {"PLANOGRAM_UPDATE_DONE", "DOOR_STATE_CHANGED"}

\* a queue that hands out the event put in last
appendleft_popped_first(q, event) == <<event>> \o q

\* deque.appendleft and deque.pop work on opposite ends: the queue is written
\* here from the end that pop takes (right) to the end that appendleft fills
appendleft(q, event) == Append(q, event)

\* EventBus.post_high, post, post_low: the three queues after the post
post(queues, event) ==
    [queues EXCEPT ![event.priority] = appendleft(@, event)]

Queues == [high |-> highprio_q, normal |-> normprio_q, low |-> lowprio_q]

SetQueues(queues) ==
    /\ highprio_q' = queues.high
    /\ normprio_q' = queues.normal
    /\ lowprio_q' = queues.low

NotDispatching ==
    [phase |-> "idle", left |-> 0, event |-> <<>>, handlers |-> <<>>, at_start |-> <<>>]

\* a module posts an event from a thread of its own
Post(type, priority) ==
    /\ Len(bus_log) < MaxEvents
    /\ SetQueues(post(Queues, BusEvent(Len(bus_log) + 1, type, priority)))
    /\ bus_log' = Append(bus_log, BusEvent(Len(bus_log) + 1, type, priority))
    /\ UNCHANGED <<dispatch, delivered, appVars, machineVars, workerVars>>

PostEvent == \E type \in PostedTypes, priority \in Priorities : Post(type, priority)

\* the timer fires: EventBus._dispatch begins with the high priority queue.
\* at_start: the three queues as they are when the tick starts.
DispatchBegin ==
    /\ dispatch.phase = "idle"
    /\ dispatch' = [phase |-> "high", left |-> MAX_NUM_HIGH_PRIO_EVENTS_PER_TIME,
                    event |-> <<>>, handlers |-> <<>>, at_start |-> <<Queues>>]
    /\ UNCHANGED <<highprio_q, normprio_q, lowprio_q, delivered, bus_log, appVars, machineVars, workerVars>>

\* a dispatcher that serves the low priority queue before the normal one
NextPhase_low_first(phase) ==
    CASE phase = "high" -> "low" [] phase = "low" -> "normal" [] OTHER -> "idle"

\* the order of the three loops of _dispatch
NextPhase(phase) ==
    CASE phase = "high" -> "normal" [] phase = "normal" -> "low" [] OTHER -> "idle"

\* one round of the for loop of a queue, under the lock of the queue: pop the next
\* event and look up its handlers, or leave the loop when the queue is empty or
\* the rounds of the tick are used up
DispatchPop ==
    LET q == Queues[dispatch.phase]
        event == Head(q)
        following == NextPhase(dispatch.phase)
    IN  /\ dispatch.phase # "idle"
        /\ dispatch.handlers = <<>>
        /\ IF dispatch.left > 0 /\ q # <<>>
           THEN /\ SetQueues([Queues EXCEPT ![dispatch.phase] = Tail(q)])
                /\ dispatch' = [dispatch EXCEPT !.left = @ - 1, !.event = <<event>>,
                                                !.handlers = _subscriptions(event.type)]
           ELSE /\ UNCHANGED <<highprio_q, normprio_q, lowprio_q>>
                /\ dispatch' = IF following = "idle" THEN NotDispatching
                               ELSE [dispatch EXCEPT !.phase = following,
                                                     !.left = PerTime(following),
                                                     !.event = <<>>]
        /\ UNCHANGED <<delivered, bus_log, appVars, machineVars, workerVars>>

Delivery(handler, event) == [handler |-> handler, event |-> event]

\* handler(event), called with the lock of the queue released.  further: the
\* handler posts an event itself (MachineLogic._on_state_changed).
Invoke(further) ==
    LET handler == Head(dispatch.handlers)
        event == Head(dispatch.event)
        state_changed == BusEvent(Len(bus_log) + 1, "MACHINE_STATE_CHANGED", "normal")
    IN  /\ dispatch.handlers # <<>>
        /\ delivered' = Append(delivered, Delivery(handler, event))
        /\ dispatch' = [dispatch EXCEPT !.handlers = Tail(@)]
        /\ IF further
           THEN /\ handler = "logic.machine"
                /\ Len(bus_log) < MaxEvents
                /\ SetQueues(post(Queues, state_changed))
                /\ bus_log' = Append(bus_log, state_changed)
           ELSE UNCHANGED <<highprio_q, normprio_q, lowprio_q, bus_log>>
        /\ UNCHANGED <<appVars, machineVars, workerVars>>

InvokeHandler == \E further \in BOOLEAN : Invoke(further)

InitBus ==
    /\ highprio_q = <<>>
    /\ normprio_q = <<>>
    /\ lowprio_q = <<>>
    /\ dispatch = NotDispatching
    /\ delivered = <<>>
    /\ bus_log = <<>>

\* ------------------------------------------------------------- machine
\* The FSM is the one _init_fsm configures (no statement of the sources calls
\* _init_fsm).  PlanogramLogic.is_planogram_set is not part of the sources: it is
\* the input planogram_present of the specification.
MachineStates ==
    {"STARTUP", "AVAILABLE", "UNAVAILABLE", "BUSY", "MAINTENANCE", "ERROR", "UPDATE"}

\* the inputs the condition checkers read
Inputs == [planogram_present |-> planogram_set,
           dispenser_ready |-> dispenser_is_ready,
           door_open |-> is_door_open,
           hw_error |-> is_hw_error_indicated,
           dispensing_in_progress |-> is_dispensing_in_progress]

\* a checker of AVAILABLE that does not look at the door
_check_available_condition_any_door(in) ==
    /\ in.planogram_present /\ in.dispenser_ready
    /\ ~in.hw_error /\ ~in.dispensing_in_progress

_check_available_condition(in) ==
    /\ in.planogram_present /\ in.dispenser_ready /\ ~in.door_open
    /\ ~in.hw_error /\ ~in.dispensing_in_progress

_check_unavailable_condition(in) ==
    /\ ~in.planogram_present /\ in.dispenser_ready /\ ~in.door_open
    /\ ~in.hw_error /\ ~in.dispensing_in_progress

_check_busy_condition(in) == in.dispensing_in_progress

_check_maintenance_condition(in) == in.door_open

_check_error_condition(in) == in.hw_error /\ ~in.door_open

_check_update_condition(in) == FALSE

Transition(to_state, holds) == [to_state |-> to_state, holds |-> holds]

\* MachineLogic._init_fsm: the transitions of a state in the order they are added,
\* each with the value of its condition checker
_transitions(state, in) ==
    LET to_available == Transition("AVAILABLE", _check_available_condition(in))
        to_unavailable == Transition("UNAVAILABLE", _check_unavailable_condition(in))
        to_busy == Transition("BUSY", _check_busy_condition(in))
        to_maintenance == Transition("MAINTENANCE", _check_maintenance_condition(in))
        to_error == Transition("ERROR", _check_error_condition(in))
        to_update == Transition("UPDATE", _check_update_condition(in))
    IN  CASE state = "STARTUP" -> <<to_available, to_unavailable, to_maintenance, to_error>>
          [] state = "AVAILABLE" -> <<to_unavailable, to_busy, to_maintenance, to_error,
                                      to_update>>
          [] state = "UNAVAILABLE" -> <<to_available, to_maintenance, to_error, to_update>>
          [] state = "BUSY" -> <<to_available, to_error>>
          [] state = "MAINTENANCE" -> <<to_available, to_unavailable, to_error>>
          [] state = "ERROR" -> <<to_available, to_maintenance,
                                  Transition("UPDATE", _check_error_condition(in))>>
          [] OTHER -> <<>>

\* a walk through the transitions that keeps the last one whose condition holds
get_next_state_last(state, in) ==
    LET active == SelectSeq(_transitions(state, in), LAMBDA t : t.holds)
    IN  IF active = <<>> THEN <<>> ELSE <<active[Len(active)].to_state>>

\* FSMState.get_next_state: the target of the first transition whose condition
\* holds, <<>> for None
get_next_state(state, in) ==
    LET active == SelectSeq(_transitions(state, in), LAMBDA t : t.holds)
    IN  IF active = <<>> THEN <<>> ELSE <<Head(active).to_state>>

\* on_exit of a state (STARTUP: _on_startup_complete) and on_enter of a state
\* (every state but STARTUP: _on_state_changed, which reads get_current_state())
do_exit(state) ==
    IF state = "STARTUP" THEN <<Event("STARTUP_COMPLETE", <<>>)>> ELSE <<>>

do_enter(state, current) ==
    IF state = "STARTUP" THEN <<>>
    ELSE <<Event("MACHINE_STATE_CHANGED", [state |-> current])>>

\* FSM.run: do_exit of the current state, do_enter of the next one, and only then
\* the assignment of _current_state
run(state, in) ==
    LET next_state == get_next_state(state, in)
    IN  IF next_state = <<>> THEN [state |-> state, posted |-> <<>>]
        ELSE [state |-> Head(next_state),
              posted |-> do_exit(state) \o do_enter(Head(next_state), state)]

MachineEvent(type, body) == [type |-> type, body |-> body]

\* MachineLogic._app_event_handler on the dispatcher thread
AppEvent(type, body) ==
    /\ Len(machine_q) < MaxMachineEvents
    /\ dispenser_is_ready' = (dispenser_is_ready \/ type = "HW_DISPENSER_IS_READY")
    /\ planogram_set' = (planogram_set \/ type = "PLANOGRAM_UPDATE_DONE")
    /\ machine_q' = Append(machine_q,
           MachineEvent(CASE type = "HW_DISPENSER_IS_READY" -> "HW_IS_READY"
                          [] type = "PLANOGRAM_UPDATE_DONE" -> "PLANOGRAM_UPDATED"
                          [] OTHER -> type,
                        body))
    /\ posted' = <<>>
    /\ last' = [NoOp EXCEPT !.op = "app_event"]
    /\ UNCHANGED <<current_state, is_door_open, is_hw_error_indicated,
                   is_dispensing_in_progress, dbVars, timerVars, planVars, event_q, now,
                   busVars, workerVars>>

HwDispenserIsReady == AppEvent("HW_DISPENSER_IS_READY", <<>>)

DoorStateChanged == \E open \in BOOLEAN : AppEvent("DOOR_STATE_CHANGED", <<open>>)

\* the planogram worker has committed a planogram and posted PLANOGRAM_UPDATE_DONE
PlanogramUpdateDone == AppEvent("PLANOGRAM_UPDATE_DONE", <<>>)

\* the machine worker takes the next event: _on_hw_ready, _on_door_state_changed,
\* _on_planogram_updated
MachineWorker ==
    LET ev == Head(machine_q)
        door == IF ev.type = "DOOR_STATE_CHANGED" THEN Head(ev.body) ELSE is_door_open
        out == run(current_state, [Inputs EXCEPT !.door_open = door])
    IN  /\ machine_q # <<>>
        /\ machine_q' = Tail(machine_q)
        /\ is_door_open' = door
        /\ current_state' = out.state
        /\ posted' = out.posted
        /\ last' = [NoOp EXCEPT !.op = ev.type]
        /\ UNCHANGED <<dispenser_is_ready, is_hw_error_indicated, is_dispensing_in_progress,
                       planogram_set, dbVars, timerVars, planVars, event_q, now, busVars, workerVars>>

\* FSM.run on the inputs as they are
FsmRun ==
    /\ current_state' = run(current_state, Inputs).state
    /\ posted' = run(current_state, Inputs).posted
    /\ last' = [NoOp EXCEPT !.op = "fsm_run"]
    /\ UNCHANGED <<dispenser_is_ready, is_door_open, is_hw_error_indicated,
                   is_dispensing_in_progress, planogram_set, machine_q, dbVars, timerVars,
                   planVars, event_q, now, busVars, workerVars>>

InitMachine ==
    /\ current_state = "STARTUP"
    /\ dispenser_is_ready = FALSE
    /\ is_door_open = FALSE
    /\ is_hw_error_indicated = FALSE
    /\ is_dispensing_in_progress = FALSE
    /\ planogram_set = FALSE
    /\ machine_q = <<>>

\* ------------------------------------------------------------- workers
\* The threads of CartLogic and PlanogramLogic.  Both modules run the same loop
\* and the same stop(); the queue of CartLogic is event_q, that of PlanogramLogic
\* plan_event_q.  The head of a queue is the event pop() returns next.
Components == {"logic.cart", "logic.planogram"}

PlanogramEvent(type) == [type |-> type]

\* the DUMMY event stop() puts in the queue
Sentinel(component) ==
    IF component = "logic.cart" THEN CartEvent("DUMMY", 0) ELSE PlanogramEvent("DUMMY")

EventQueue(component) == IF component = "logic.cart" THEN event_q ELSE plan_event_q

SetEventQueue(component, q) ==
    IF component = "logic.cart"
    THEN event_q' = q /\ UNCHANGED plan_event_q
    ELSE plan_event_q' = q /\ UNCHANGED event_q

\* position of a worker: at the test of the while loop, waiting for an event,
\* inside the if chain with the event it popped, returned from the loop, ended by
\* an exception
WorkerAt(pc, ev) == [pc |-> pc, ev |-> ev]

\* a thread puts an event in the queue of a module (with self._cv: appendleft)
Enqueue(component, event) ==
    /\ Len(EventQueue(component)) < MaxQueued
    /\ SetEventQueue(component, Append(EventQueue(component), event))
    /\ posted' = <<>>
    /\ last' = [NoOp EXCEPT !.op = "enqueue"]
    /\ UNCHANGED <<dbVars, timerVars, planVars, now, busVars, machineVars, stopped, stop_at,
                   worker, calls, plan_posted, sweep, running, timers>>

\* stop(), first statement: self._stopped = True
StopFlag(component) ==
    /\ stop_at[component] = "running"
    /\ stopped' = [stopped EXCEPT ![component] = TRUE]
    /\ stop_at' = [stop_at EXCEPT ![component] = "flagged"]
    /\ posted' = <<>>
    /\ last' = [NoOp EXCEPT !.op = "stop"]
    /\ UNCHANGED <<dbVars, timerVars, planVars, event_q, now, busVars, machineVars,
                   plan_event_q, worker, calls, plan_posted, sweep, running, timers>>

\* stop(), under the lock of the queue: appendleft(DUMMY), notify; join follows
StopSentinel(component) ==
    /\ stop_at[component] = "flagged"
    /\ SetEventQueue(component, Append(EventQueue(component), Sentinel(component)))
    /\ stop_at' = [stop_at EXCEPT ![component] = "joining"]
    /\ posted' = <<>>
    /\ last' = [NoOp EXCEPT !.op = "stop"]
    /\ UNCHANGED <<dbVars, timerVars, planVars, now, busVars, machineVars, stopped, worker,
                   calls, plan_posted, sweep, running, timers>>

\* a loop that does not test the flag: while True
WorkerLoop_while_true(component) ==
    /\ worker[component].pc = "while"
    /\ worker' = [worker EXCEPT ![component] = WorkerAt("wait", <<>>)]
    /\ posted' = <<>>
    /\ last' = [NoOp EXCEPT !.op = "worker_loop"]
    /\ UNCHANGED <<dbVars, timerVars, planVars, event_q, now, busVars, machineVars,
                   plan_event_q, stopped, stop_at, calls, plan_posted, sweep, running, timers>>

\* _event_processing_worker: while not self._stopped
WorkerLoop(component) ==
    /\ worker[component].pc = "while"
    /\ worker' = [worker EXCEPT ![component] =
                      WorkerAt(IF stopped[component] THEN "exited" ELSE "wait", <<>>)]
    /\ posted' = <<>>
    /\ last' = [NoOp EXCEPT !.op = "worker_loop"]
    /\ UNCHANGED <<dbVars, timerVars, planVars, event_q, now, busVars, machineVars,
                   plan_event_q, stopped, stop_at, calls, plan_posted, sweep, running, timers>>

\* _event_processing_worker: wait_for(len(self._event_q) > 0), ev = pop()
WorkerPop(component) ==
    /\ worker[component].pc = "wait"
    /\ EventQueue(component) # <<>>
    /\ worker' = [worker EXCEPT ![component] =
                      WorkerAt("handle", <<Head(EventQueue(component))>>)]
    /\ SetEventQueue(component, Tail(EventQueue(component)))
    /\ posted' = <<>>
    /\ last' = [NoOp EXCEPT !.op = "worker_pop"]
    /\ UNCHANGED <<dbVars, timerVars, planVars, now, busVars, machineVars, stopped, stop_at,
                   calls, plan_posted, sweep, running, timers>>

\* the threads that call CartLogic besides its worker: the REST server, the
\* dispatcher of the bus (PURCHASE_FINISHED), the periodic task
CartCallers == {"rest", "dispatcher", "exp_timer"}

CartOperations(thread) ==
    CASE thread = "rest" -> {"update", "clear", "dispense"}
      [] thread = "dispatcher" -> {"_process_purchase_finished"}
      [] thread = "exp_timer" -> {"_exp_list_process"}

\* a thread enters an operation of CartLogic: nothing is acquired on the way in
Call(thread, operation) ==
    /\ calls[thread] = ""
    /\ calls' = [calls EXCEPT ![thread] = operation]
    /\ posted' = <<>>
    /\ last' = [NoOp EXCEPT !.op = "call"]
    /\ UNCHANGED <<dbVars, timerVars, planVars, event_q, now, busVars, machineVars,
                   plan_event_q, stopped, stop_at, worker, plan_posted, sweep, running, timers>>

\* the operation returns
Return(thread) ==
    /\ calls[thread] # ""
    /\ calls' = [calls EXCEPT ![thread] = ""]
    /\ posted' = <<>>
    /\ last' = [NoOp EXCEPT !.op = "return"]
    /\ UNCHANGED <<dbVars, timerVars, planVars, event_q, now, busVars, machineVars,
                   plan_event_q, stopped, stop_at, worker, plan_posted, sweep, running, timers>>

\* EventBus._proc_timer and CartLogic._exp_timer
Timers == {"_proc_timer", "_exp_timer"}

\* stop(), last statement: self._event_thread.join() returns when the thread has
\* ended
StopJoin(component) ==
    /\ stop_at[component] = "joining"
    /\ worker[component].pc \in {"exited", "raised"}
    /\ stop_at' = [stop_at EXCEPT ![component] = "stopped"]
    /\ posted' = <<>>
    /\ last' = [NoOp EXCEPT !.op = "stop"]
    /\ UNCHANGED <<dbVars, timerVars, planVars, event_q, now, busVars, machineVars,
                   plan_event_q, stopped, worker, calls, plan_posted, sweep, running, timers>>

\* EventBus.stop: self._proc_timer.cancel()
EventBusStop ==
    /\ timers' = [timers EXCEPT !["_proc_timer"] = "cancelled"]
    /\ posted' = <<>>
    /\ last' = [NoOp EXCEPT !.op = "stop"]
    /\ UNCHANGED <<dbVars, timerVars, planVars, event_q, now, busVars, machineVars,
                   plan_event_q, stopped, stop_at, worker, calls, plan_posted, sweep, running>>

InitWorkers ==
    /\ plan_event_q = <<>>
    /\ stopped = [component \in Components |-> FALSE]
    /\ stop_at = [component \in Components |-> "running"]
    /\ worker = [component \in Components |-> WorkerAt("while", <<>>)]
    /\ calls = [thread \in CartCallers |-> ""]
    /\ plan_posted = <<>>
    /\ sweep = <<>>
    /\ running = <<>>
    /\ timers = [timer \in Timers |-> "pending"]

\* ------------------------------------------------------------- initial states
Inv1 == << InventoryItem(1, 1, 1, V1, 1, 1, 2),
           InventoryItem(1, 1, 2, V1, 1, 1, 1),
           InventoryItem(1, 2, 1, V2, 1, 1, 0) >>

\* the same slot number in two trays of the unit
Inv2 == << InventoryItem(1, 1, 1, V1, 1, 1, 1),
           InventoryItem(1, 2, 1, V1, 1, 1, 2) >>

\* one item in stock
Inv3 == << InventoryItem(1, 1, 1, V1, 1, 1, 1) >>

\* two variants in one tray
Inv4 == << InventoryItem(1, 1, 1, V1, 1, 1, 2),
           InventoryItem(1, 1, 2, V2, 1, 1, 1) >>

\* the state after the modules have started on a database that holds inv
InitRows(inv) ==
    /\ inventory = inv
    /\ carts = <<>>
    /\ cart_contents = {}
    /\ reservations = <<>>
    /\ order_history = <<>>
    /\ next_cart_id = 1
    /\ next_rec_id = 1
    /\ foreign_keys = TRUE
    /\ exp_list = <<>>
    /\ reservation_exp_list = <<>>
    /\ order_hist_exp_list = <<>>
    /\ exp_tm_tick_cnt = 0
    /\ event_q = <<>>
    /\ current_planogram = PlanogramStart(inv)
    /\ new_planogram = NoPlanogram
    /\ new_variants = {}
    /\ commit = Idle
    /\ now = 0
    /\ posted = <<>>
    /\ last = NoOp

InitOn(inv) == InitRows(inv) /\ InitBus /\ InitMachine /\ InitWorkers

Init == \E inv \in {Inv1, Inv2} : InitOn(inv)

\* the cart arithmetic: update and clear requests of a LOCAL and a REMOTE cart
Next ==
    \/ RestUpdate
    \/ ReservationUpdate
    \/ ClearRequest

Spec == Init /\ [][Next]_vars

\* the life of the carts: one item in stock, the requests of a LOCAL and a REMOTE
\* cart, the clock, the periodic task, PURCHASE_FINISHED and restarts
InitExpiry == InitOn(Inv3)

AddToLocalCart == Update(LocalTx, 1, "LOCAL", V1, 1, FALSE)

AddToRemoteCart == Update(RemoteTx, 0, "REMOTE", V1, 1, FALSE)

NextExpiry ==
    \/ AddToLocalCart
    \/ AddToRemoteCart
    \/ ClearRequest
    \/ ProlongRequest
    \/ ReserveRequest
    \/ DispenseRequest
    \/ PurchaseFinishedEvent
    \/ Tick
    \/ ExpirationTimer
    \/ Restart

SpecExpiry == InitExpiry /\ [][NextExpiry]_vars

\* planogram updates while a LOCAL and a REMOTE cart reserve
Layouts ==
    { << Slot(1, 1, V1, 1, 1), Slot(1, 2, V2, 1, 1) >>,      \* the layout of Inv4
      << Slot(1, 2, V2, 1, 1), Slot(1, 3, V1, 1, 1) >>,      \* V1 moved to location 3
      << Slot(1, 1, V2, 1, 1), Slot(1, 2, V2, 1, 1) >> }     \* V1 left the unit

Catalogs == { {V1, V2}, {V2} }

InitPlanogram == InitOn(Inv4)

PlanogramNotification ==
    \E layout \in Layouts, variant_ids \in Catalogs : PlanogramUpdated(layout, variant_ids)

PlanogramNotificationRaises == \E layout \in Layouts : PlanogramUpdatedRaises(layout)

NextPlanogram ==
    \/ AddToLocalCart
    \/ AddToRemoteCart
    \/ PlanogramNotification
    \/ PlanogramNotificationRaises
    \/ PlanogramUpdateFailed
    \/ ApplyPlanogram
    \/ ApplyNextWrite
    \/ ApplyFinish
    \/ RejectPlanogram
    \/ HandlePlanogramUpdated

SpecPlanogram == InitPlanogram /\ [][NextPlanogram]_vars

\* checkout: one item in stock; a LOCAL cart begins its transaction while a REMOTE
\* cart is updated, prolonged, confirmed and cancelled; the clock and the periodic
\* task run
InitCheckout == InitOn(Inv3)

\* DELETE cart of the REST server; reservation topic, updateType "cancel"; topic
\* transaction with a status other than PAYMENT_SUCCESS
ClearTransaction == \E transaction_id \in AllTxIds : Clear(transaction_id)

\* reservation topic, updateType "confirm", for any transaction id, repeated or not
ConfirmRequest ==
    /\ Len(reservation_exp_list) <= MaxTimers
    /\ \E transaction_id \in AllTxIds : reserve(transaction_id, "P1")

\* pickup of the REST server; topic transaction with status PAYMENT_SUCCESS
DispenseTransaction == \E transaction_id \in AllTxIds : Dispense(transaction_id, 1)

NextCheckout ==
    \/ AddToLocalCart
    \/ AddToRemoteCart
    \/ ClearTransaction
    \/ ProlongRequest
    \/ ConfirmRequest
    \/ DispenseTransaction
    \/ BeginTransactionRequest
    \/ BeginTransaction
    \/ Tick
    \/ ExpirationTimer

SpecCheckout == InitCheckout /\ [][NextCheckout]_vars

\* prereservation: the requests of the reservation topic for one REMOTE cart, with
\* stock for several updates; the clock and the periodic task run
InitPrereservation == InitOn(Inv1)

NextPrereservation ==
    \/ ReservationUpdate
    \/ ProlongRequest
    \/ ReserveRequest
    \/ ClearRequest
    \/ Tick
    \/ ExpirationTimer

SpecPrereservation == InitPrereservation /\ [][NextPrereservation]_vars

\* recovery: a REMOTE cart is confirmed, a LOCAL cart begins its transaction, the
\* clock runs, and the process restarts at any time
InitRecovery == InitOn(Inv3)

NextRecovery ==
    \/ AddToLocalCart
    \/ AddToRemoteCart
    \/ ReserveRequest
    \/ BeginTransactionRequest
    \/ BeginTransaction
    \/ Tick
    \/ Restart

SpecRecovery == InitRecovery /\ [][NextRecovery]_vars

\* the prereservation timeout: the clock is the only step that is sure to happen.
\* The requests of the portal and of the display may never come, and start and
\* _exp_list_process construct the Timer of the periodic task without starting
\* it, so nothing schedules ExpirationTimer.
InitTimeout == InitOn(Inv3)

NextTimeout ==
    \/ AddToLocalCart
    \/ AddToRemoteCart
    \/ ClearRequest
    \/ ProlongRequest
    \/ ReserveRequest
    \/ Tick
    \/ ExpirationTimer

SpecTimeout == InitTimeout /\ [][NextTimeout]_vars /\ WF_vars(Tick)

\* the same with a periodic task that is scheduled
SpecTimeoutScheduled == SpecTimeout /\ WF_vars(ExpirationTimer)

\* the event bus: modules post events of the three priorities while the
\* dispatcher runs its ticks
InitDispatch == InitOn(Inv3)

NextDispatch ==
    \/ PostEvent
    \/ DispatchBegin
    \/ DispatchPop
    \/ InvokeHandler

SpecDispatch == InitDispatch /\ [][NextDispatch]_vars

\* the same with the steps that are sure to happen: a tick that has begun goes on
\* through its loops and a handler returns.  start and _dispatch construct the
\* Timer of the dispatcher without starting it, so nothing schedules DispatchBegin.
SpecDispatchProgress == SpecDispatch /\ WF_vars(DispatchPop) /\ WF_vars(InvokeHandler)

\* the same with a dispatcher that is scheduled
SpecDispatchScheduled == SpecDispatchProgress /\ WF_vars(DispatchBegin)

\* the machine from its start, with or without a planogram in the repository
InitMachineEvents ==
    /\ InitRows(Inv3) /\ InitBus /\ InitWorkers
    /\ current_state = "STARTUP"
    /\ dispenser_is_ready = FALSE
    /\ is_door_open = FALSE
    /\ is_hw_error_indicated = FALSE
    /\ is_dispensing_in_progress = FALSE
    /\ planogram_set \in BOOLEAN
    /\ machine_q = <<>>

NextMachineEvents ==
    \/ HwDispenserIsReady
    \/ DoorStateChanged
    \/ PlanogramUpdateDone
    \/ MachineWorker

SpecMachineEvents == InitMachineEvents /\ [][NextMachineEvents]_vars

\* FSM.run from every state on every valuation of the inputs
InitMachineStep ==
    /\ InitRows(Inv3) /\ InitBus /\ InitWorkers
    /\ current_state \in MachineStates
    /\ dispenser_is_ready \in BOOLEAN
    /\ is_door_open \in BOOLEAN
    /\ is_hw_error_indicated \in BOOLEAN
    /\ is_dispensing_in_progress \in BOOLEAN
    /\ planogram_set \in BOOLEAN
    /\ machine_q = <<>>

NextMachineStep == FsmRun

SpecMachineStep == InitMachineStep /\ [][NextMachineStep]_vars

\* the commit on its own: notifications deliver the layouts above or a layout in
\* which a slot keeps its variant and changes its width or its depth
ResizedLayouts ==
    { << Slot(1, 1, V1, 2, 1), Slot(1, 2, V2, 1, 1) >>,      \* slot 1 wider
      << Slot(1, 1, V1, 1, 1), Slot(1, 2, V2, 1, 2) >> }     \* slot 2 deeper

InitCommit == InitOn(Inv4)

ResizedNotification ==
    \E layout \in ResizedLayouts, variant_ids \in Catalogs : PlanogramUpdated(layout, variant_ids)

NextCommit ==
    \/ PlanogramNotification
    \/ ResizedNotification
    \/ ApplyPlanogram
    \/ ApplyNextWrite
    \/ ApplyFinish
    \/ HandlePlanogramUpdated

SpecCommit == InitCommit /\ [][NextCommit]_vars

\* the periodic task on its own thread next to prolong: the first loop of
\* _exp_list_process has found the item of a cart expired (the test of
\* time.monotonic() against exp_at) and has not yet read and removed the cart
SweepFinds ==
    /\ sweep = <<>>
    /\ \E i \in 1..Len(exp_list) :
           /\ now > exp_list[i].exp_at
           /\ \A k \in 1..(i - 1) : ~(now > exp_list[k].exp_at)
           /\ sweep' = <<exp_list[i]>>
    /\ posted' = <<>>
    /\ last' = [NoOp EXCEPT !.op = "sweep_finds"]
    /\ UNCHANGED <<dbVars, timerVars, planVars, event_q, now, busVars, machineVars,
                   plan_event_q, stopped, stop_at, worker, calls, plan_posted, running, timers>>

\* the rest of _exp_list_process from there: the cart of the item in hand is read
\* and removed, the walk goes on over the other items, the items to erase are
\* removed from the list and the long timers follow.  self._exp_list.remove(item)
\* raises ValueError, which ends the task, when the item is no longer in the list.
SweepRemoves ==
    LET exp_item == Head(sweep)
        found == get_cart(carts, exp_item.obj_id)
        cart == Head(found)
        first == IF found = <<>> THEN Rows
                 ELSE remove_cart([Rows EXCEPT !.posted =
                                      IF cart.status = "PRERESERVATION"
                                      THEN <<ReservationCompleted(cart, "EXPIRED")>>
                                      ELSE <<>>],
                                  cart, foreign_keys, "prereservation")
        short == ShortTimers(SelectSeq(exp_list, LAMBDA i : i # exp_item), first,
                             foreign_keys, now)
        raised == exp_item \notin Range(exp_list)
        cnt == exp_tm_tick_cnt + 1
        due == cnt >= EXP_TM_TICKS_IN_MINUTE /\ ~raised
        long == ReservationTimers(reservation_exp_list, [short EXCEPT !.kept = <<>>],
                                  foreign_keys, now, FALSE)
        out == IF due THEN OrderHistoryTimers(long, now) ELSE short
    IN  /\ sweep # <<>>
        /\ sweep' = <<>>
        /\ exp_list' = IF raised THEN exp_list ELSE short.kept
        /\ exp_tm_tick_cnt' = IF raised THEN exp_tm_tick_cnt ELSE IF due THEN 0 ELSE cnt
        /\ reservation_exp_list' = IF due THEN long.kept ELSE reservation_exp_list
        /\ order_hist_exp_list' = out.order_hist_exp_list
        /\ carts' = out.carts
        /\ cart_contents' = out.cart_contents
        /\ reservations' = out.reservations
        /\ order_history' = out.order_history
        /\ next_rec_id' = out.next_rec_id
        /\ posted' = out.posted
        /\ last' = [NoOp EXCEPT !.op = "sweep_removes",
                                !.res = IF raised THEN "ERROR" ELSE "OK",
                                !.removed = out.removed]
        /\ UNCHANGED <<inventory, next_cart_id, foreign_keys, planVars, event_q, now, busVars,
                       machineVars, plan_event_q, stopped, stop_at, worker, calls,
                       plan_posted, running, timers>>

InitSweepRace == InitOn(Inv3)

NextSweepRace ==
    \/ AddToRemoteCart
    \/ ProlongRequest
    \/ ReserveRequest
    \/ Tick
    \/ SweepFinds
    \/ SweepRemoves

SpecSweepRace == InitSweepRace /\ [][NextSweepRace]_vars

\* the locks of the queues the dispatcher holds at its position in _dispatch: the
\* lock of the queue whose loop it is in, acquired before the loop and released
\* after it, and none while it is inside a handler (release before the call,
\* acquire after it)
LocksHeld_over_handler ==
    IF dispatch.phase = "idle" THEN {} ELSE {dispatch.phase}

LocksHeld ==
    IF dispatch.phase = "idle" \/ running # <<>> THEN {} ELSE {dispatch.phase}

\* the dispatcher releases the lock of the queue and calls the next handler
HandlerCall ==
    /\ dispatch.handlers # <<>>
    /\ running = <<>>
    /\ running' = <<Head(dispatch.handlers)>>
    /\ delivered' = Append(delivered, Delivery(Head(dispatch.handlers), Head(dispatch.event)))
    /\ UNCHANGED <<highprio_q, normprio_q, lowprio_q, dispatch, bus_log, appVars, machineVars,
                   plan_event_q, stopped, stop_at, worker, calls, plan_posted, sweep, timers>>

\* the handler returns and the dispatcher acquires the lock again.  further: the
\* handler has posted an event (MachineLogic._on_state_changed), which takes the
\* lock of the normal priority queue: it waits as long as another thread holds it.
HandlerReturn(further) ==
    LET state_changed == BusEvent(Len(bus_log) + 1, "MACHINE_STATE_CHANGED", "normal")
    IN  /\ running # <<>>
        /\ running' = <<>>
        /\ dispatch' = [dispatch EXCEPT !.handlers = Tail(@)]
        /\ IF further
           THEN /\ Head(running) = "logic.machine"
                /\ state_changed.priority \notin LocksHeld
                /\ Len(bus_log) < MaxEvents
                /\ SetQueues(post(Queues, state_changed))
                /\ bus_log' = Append(bus_log, state_changed)
           ELSE UNCHANGED <<highprio_q, normprio_q, lowprio_q, bus_log>>
        /\ UNCHANGED <<delivered, appVars, machineVars, plan_event_q, stopped, stop_at, worker,
                       calls, plan_posted, sweep, timers>>

HandlerPosts == HandlerReturn(TRUE)

HandlerReturns == HandlerReturn(FALSE)

InitHandlerLocks == InitOn(Inv3)

NextHandlerLocks ==
    \/ PostEvent
    \/ DispatchBegin
    \/ DispatchPop
    \/ HandlerCall
    \/ HandlerPosts
    \/ HandlerReturns

SpecHandlerLocks == InitHandlerLocks /\ [][NextHandlerLocks]_vars

\* ------------------------------------------------------------- worker threads
\* the if chain of CartLogic._event_processing_worker with the event it popped.
\* The rows a command writes are those of the operations of the cart engine
\* above; here the thread is followed.  key_error: the command has no such key,
\* which the loop catches.  DUMMY matches no branch.
CartHandlerOutcomes == {"ok", "key_error"}

CartWorkerHandle(outcome) ==
    /\ worker["logic.cart"].pc = "handle"
    /\ worker' = [worker EXCEPT !["logic.cart"] = WorkerAt("while", <<>>)]
    /\ posted' = <<>>
    /\ last' = [NoOp EXCEPT !.op = "cart_worker",
                            !.res = IF outcome = "ok" THEN "" ELSE "ERROR"]
    /\ UNCHANGED <<dbVars, timerVars, planVars, event_q, now, busVars, machineVars,
                   plan_event_q, stopped, stop_at, calls, plan_posted, sweep, running, timers>>

\* PlanogramLogic._apply_new_planogram from a staged planogram, every DB call
\* succeeding: the rows, the planograms and the events it leaves
_apply_new_planogram(inv, current, staged) ==
    [inventory |-> ApplyWrites(inv, Writes(1, current, staged)),
     current_planogram |-> staged,
     new_planogram |-> NoPlanogram,
     posted |-> <<Event("PLANOGRAM_UPDATE_DONE", <<>>)>>]

\* the if chain of PlanogramLogic._event_processing_worker with the event it
\* popped.  No statement of the loop catches: what a handler lets through ends
\* the thread (the TypeError of the comparison after the finally clause posted
\* PLANOGRAM_UPDATE_FAILED; the AttributeError of None.items() when
\* APPLY_PLANOGRAM finds nothing staged).
PlanogramWorkerHandle(layout, variant_ids, outcome) ==
    LET ev == Head(worker["logic.planogram"].ev)
        notified == _planogram_updated_event_handler(Buffers(new_planogram, new_variants),
                                                     layout, variant_ids, outcome)
        nothing_staged == \E unit_id \in 1..MAX_UNITS : new_planogram[unit_id].none
        applied == _apply_new_planogram(inventory, current_planogram, new_planogram)
        at(pc) == [worker EXCEPT !["logic.planogram"] = WorkerAt(pc, <<>>)]
    IN  /\ worker["logic.planogram"].pc = "handle"
        /\ CASE ev.type \in {"PLANOGRAM_UPDATED", "GET_PLANOGRAM"} ->
                    /\ new_planogram' = notified.buffers.new_planogram
                    /\ new_variants' = notified.buffers.new_variants
                    /\ posted' = notified.posted
                    /\ plan_posted' = notified.posted
                    /\ worker' = at(IF outcome = "type_error" THEN "raised" ELSE "while")
                    /\ last' = [NoOp EXCEPT !.op = "planogram_updated",
                                            !.res = IF outcome = "ok" THEN "" ELSE "ERROR"]
                    /\ UNCHANGED <<inventory, current_planogram>>
             [] ev.type = "APPLY_PLANOGRAM" /\ nothing_staged ->
                    /\ worker' = at("raised")
                    /\ posted' = <<>>
                    /\ last' = [NoOp EXCEPT !.op = "apply_planogram", !.res = "ERROR"]
                    /\ UNCHANGED <<inventory, current_planogram, new_planogram, new_variants,
                                   plan_posted, sweep, running, timers>>
             [] ev.type = "APPLY_PLANOGRAM" /\ ~nothing_staged ->
                    /\ inventory' = applied.inventory
                    /\ current_planogram' = applied.current_planogram
                    /\ new_planogram' = applied.new_planogram
                    /\ posted' = applied.posted
                    /\ plan_posted' = applied.posted
                    /\ worker' = at("while")
                    /\ last' = [NoOp EXCEPT !.op = "apply_planogram", !.res = "OK"]
                    /\ UNCHANGED new_variants
             [] OTHER ->
                    /\ worker' = at("while")
                    /\ posted' = <<>>
                    /\ last' = [NoOp EXCEPT !.op = "planogram_worker"]
                    /\ UNCHANGED <<inventory, current_planogram, new_planogram, new_variants,
                                   plan_posted, sweep, running, timers>>
        /\ UNCHANGED <<carts, cart_contents, reservations, order_history, next_cart_id,
                       next_rec_id, foreign_keys, timerVars, commit, event_q, now, busVars,
                       machineVars, plan_event_q, stopped, stop_at, calls, sweep,
                       running, timers>>

\* the threads around CartLogic: commands arrive, the worker handles them, the
\* REST server, the dispatcher and the periodic task call in, the module is
\* stopped
InitCartThreads == InitOn(Inv3)

CartCommands == {"BEGIN_TRANSACTION", "PLANOGRAM_WAS_UPDATED"}

EnqueueCartCommand ==
    \E type \in CartCommands : Enqueue("logic.cart", CartEvent(type, 1))

StopCart == StopFlag("logic.cart")

StopCartSentinel == StopSentinel("logic.cart")

CartWorkerLoop == WorkerLoop("logic.cart")

CartWorkerPop == WorkerPop("logic.cart")

CartWorkerHandles == \E outcome \in CartHandlerOutcomes : CartWorkerHandle(outcome)

CallCart == \E thread \in CartCallers : \E operation \in CartOperations(thread) :
                Call(thread, operation)

ReturnFromCart == \E thread \in CartCallers : Return(thread)

NextCartThreads ==
    \/ EnqueueCartCommand
    \/ StopCart
    \/ StopCartSentinel
    \/ CartWorkerLoop
    \/ CartWorkerPop
    \/ CartWorkerHandles
    \/ CallCart
    \/ ReturnFromCart

SpecCartThreads == InitCartThreads /\ [][NextCartThreads]_vars

\* the worker of PlanogramLogic: notifications and NEW_PLANOGRAM_APPLY arrive in
\* its queue while a REMOTE cart reserves, the UI rejects, the module is stopped
InitPlanogramWorker == InitOn(Inv4)

PlanogramCommands == {"PLANOGRAM_UPDATED", "APPLY_PLANOGRAM"}

EnqueuePlanogramCommand ==
    \E type \in PlanogramCommands : Enqueue("logic.planogram", PlanogramEvent(type))

StopPlanogram == StopFlag("logic.planogram")

StopPlanogramSentinel == StopSentinel("logic.planogram")

PlanogramWorkerLoop == WorkerLoop("logic.planogram")

PlanogramWorkerPop == WorkerPop("logic.planogram")

PlanogramWorkerHandles ==
    \E layout \in Layouts, variant_ids \in Catalogs, outcome \in NotificationOutcomes :
        PlanogramWorkerHandle(layout, variant_ids, outcome)

NextPlanogramWorker ==
    \/ EnqueuePlanogramCommand
    \/ StopPlanogram
    \/ StopPlanogramSentinel
    \/ PlanogramWorkerLoop
    \/ PlanogramWorkerPop
    \/ PlanogramWorkerHandles
    \/ AddToRemoteCart
    \/ RejectPlanogram

SpecPlanogramWorker == InitPlanogramWorker /\ [][NextPlanogramWorker]_vars

\* KioskBackend.cleanup from self._cart_logic.stop() on: the modules are stopped one
\* after the other, the bus last, while the workers and the periodic tasks go on.
\* A periodic task runs as long as its Timer is not cancelled.
InitCleanup == InitOn(Inv3)

CleanupCartStop == StopFlag("logic.cart")

CleanupCartSentinel == StopSentinel("logic.cart")

CleanupCartJoin == StopJoin("logic.cart")

CleanupPlanogramStop == stop_at["logic.cart"] = "stopped" /\ StopFlag("logic.planogram")

CleanupPlanogramSentinel == StopSentinel("logic.planogram")

CleanupPlanogramJoin == StopJoin("logic.planogram")

CleanupEventBusStop ==
    /\ stop_at["logic.planogram"] = "stopped"
    /\ timers["_proc_timer"] = "pending"
    /\ EventBusStop

DispatcherTick == timers["_proc_timer"] = "pending" /\ DispatchBegin

SweepTick == timers["_exp_timer"] = "pending" /\ ExpirationTimer

NextCleanup ==
    \/ EnqueueCartCommand
    \/ CartWorkerLoop
    \/ CartWorkerPop
    \/ CartWorkerHandles
    \/ PlanogramWorkerLoop
    \/ PlanogramWorkerPop
    \/ PlanogramWorkerHandles
    \/ CleanupCartStop
    \/ CleanupCartSentinel
    \/ CleanupCartJoin
    \/ CleanupPlanogramStop
    \/ CleanupPlanogramSentinel
    \/ CleanupPlanogramJoin
    \/ CleanupEventBusStop
    \/ DispatcherTick
    \/ DispatchPop
    \/ SweepTick

SpecCleanup == InitCleanup /\ [][NextCleanup]_vars

\* the two workers and their stop(): commands arrive, each worker goes round its
\* loop, each module is stopped at any moment.  The steps of a worker and the
\* return of join are sure to happen (a handler in progress returns or raises).
InitStop == InitOn(Inv3)

EnqueueApplyPlanogram == Enqueue("logic.planogram", PlanogramEvent("APPLY_PLANOGRAM"))

NextStop ==
    \/ EnqueueCartCommand
    \/ EnqueueApplyPlanogram
    \/ CartWorkerLoop
    \/ CartWorkerPop
    \/ CartWorkerHandles
    \/ PlanogramWorkerLoop
    \/ PlanogramWorkerPop
    \/ PlanogramWorkerHandles
    \/ StopCart
    \/ StopCartSentinel
    \/ CleanupCartJoin
    \/ StopPlanogram
    \/ StopPlanogramSentinel
    \/ CleanupPlanogramJoin

SpecStop ==
    /\ InitStop /\ [][NextStop]_vars
    /\ WF_vars(CartWorkerLoop) /\ WF_vars(CartWorkerPop) /\ WF_vars(CartWorkerHandles)
    /\ WF_vars(PlanogramWorkerLoop) /\ WF_vars(PlanogramWorkerPop)
    /\ WF_vars(PlanogramWorkerHandles)
    /\ WF_vars(CleanupCartJoin) /\ WF_vars(CleanupPlanogramJoin)

\* ------------------------------------------------------------- observations
\* who calls update: the REST server for the display's LOCAL cart, the
\* reservation topic for a REMOTE cart
Callers == {[tx |-> LocalTx, display_id |-> 1, cart_type |-> "LOCAL"],
            [tx |-> RemoteTx, display_id |-> 0, cart_type |-> "REMOTE"]}

Stock(inv, v) == SumQuantity(get_inventory_items_by_variant(inv, v))
Reserved(res, v) == SumQuantity(get_reservations(res, v, 0))
ReservedBy(res, v, cart_id) ==
    SumQuantity(SelectSeq(res, LAMBDA r : r.cart_id = cart_id /\ r.variant_id = v))
ItemAmount(items, cart_id, v) ==
    LET hit == {i \in items : i.cart_id = cart_id /\ i.variant_id = v}
    IN  IF hit = {} THEN 0 ELSE (CHOOSE i \in hit : TRUE).amount
OtherRows(res, cart_id) == SelectSeq(res, LAMBDA r : r.cart_id # cart_id)
LiveCartIds == {carts[i].obj_id : i \in 1..Len(carts)}
CartIdOf(cs, tx) == Head(get_cart_by_transaction(cs, tx)).obj_id

\* C2: for every live cart c and variant v, the amount of CartItem(c, v) (0 when
\* absent) equals the sum of the quantities of c's reservations for v
C2_ItemEqualsReservations ==
    \A c \in LiveCartIds, v \in Variants :
        ItemAmount(cart_contents, c, v) = ReservedBy(reservations, v, c)

\* C3: update(tx, v, +n), n > 0, returns NOK exactly when stock - reserved < n; when
\* it returns OK the reserved total of v grows by exactly n, all of it in the
\* reservations of tx's cart, and the reservations of the other carts do not change
C3_ReserveArithmetic ==
    [][\A who \in Callers, v \in Variants, n \in 1..MaxAmount, db_error \in BOOLEAN :
         Update(who.tx, who.display_id, who.cart_type, v, n, db_error) =>
             /\ (last'.res = "NOK") <=> (Stock(inventory, v) - Reserved(reservations, v) < n)
             /\ last'.res = "OK" =>
                    /\ Reserved(reservations', v) = Reserved(reservations, v) + n
                    /\ ReservedBy(reservations', v, CartIdOf(carts', who.tx)) =
                           ReservedBy(reservations, v, CartIdOf(carts', who.tx)) + n
                    /\ OtherRows(reservations', CartIdOf(carts', who.tx)) =
                           OtherRows(reservations, CartIdOf(carts', who.tx))]_vars

\* C9: update with amount 0 returns ERROR and update with an amount larger than the
\* free stock returns NOK; when the transaction has no cart yet, neither creates a
\* cart, writes a reservation or a cart item, or arms a timer
C9_RejectedUpdateLeavesNothing ==
    [][\A who \in Callers, v \in Variants, n \in 0..MaxAmount :
         ( /\ Update(who.tx, who.display_id, who.cart_type, v, n, FALSE)
           /\ get_cart_by_transaction(carts, who.tx) = <<>>
           /\ (n = 0 \/ n > Stock(inventory, v) - Reserved(reservations, v)) ) =>
             /\ last'.res = IF n = 0 THEN "ERROR" ELSE "NOK"
             /\ carts' = carts
             /\ reservations' = reservations
             /\ cart_contents' = cart_contents
             /\ exp_list' = exp_list]_vars

CountRows(rows, r) == Cardinality({i \in 1..Len(rows) : rows[i] = r})
SameRows(a, b) == \A r \in Range(a) \cup Range(b) : CountRows(a, r) = CountRows(b, r)
RowsExcept(res, cart_id, v) ==
    SelectSeq(res, LAMBDA r : ~(r.cart_id = cart_id /\ r.variant_id = v))

\* update(tx, v, +n) on the current store and update(tx, v, -n) right after it
RoundTrip(who, v, n) ==
    LET first == update(Store, now, who.tx, who.display_id, who.cart_type, v, n, FALSE)
        second == update(first.store, now, who.tx, who.display_id, who.cart_type, v,
                         0 - n, FALSE)
    IN  [first |-> first, second |-> second, cart_id |-> CartIdOf(first.store.carts, who.tx)]

C1_ReservedWithinStock ==
    \A v \in Variants : Reserved(reservations, v) <= Stock(inventory, v)

\* C4: whenever a cart is removed (by clear, by an expiration sweep, by the
\* PURCHASE_FINISHED handler or by startup recovery), no reservation and no cart
\* item of that cart id remains
C4_RemovedCartLeavesNoRows ==
    [][\A c \in LiveCartIds :
         get_cart(carts', c) = <<>> =>
             /\ get_cart_items(cart_contents', c) = {}
             /\ \A i \in 1..Len(reservations') : reservations'[i].cart_id # c]_vars

\* a reservation of a live cart is at a (unit, location) where the inventory holds
\* its variant
Placed(r, inv) ==
    \E i \in Range(inv) : /\ i.unit_id = r.unit_id
                          /\ i.location = r.location
                          /\ i.variant_id = r.variant_id

\* C5: once the cart engine has handled PLANOGRAM_UPDATE_DONE, every reservation of
\* every live cart, LOCAL or REMOTE, is at a (unit, location) where the new
\* inventory holds its variant
C5_ReservationsFollowPlanogram ==
    [][HandlePlanogramUpdated =>
         \A i \in 1..Len(reservations') :
             get_cart(carts', reservations'[i].cart_id) # <<>> =>
                 Placed(reservations'[i], inventory')]_vars

\* the variants reserved by a live cart
ReservedVariants ==
    {reservations[i].variant_id :
         i \in {k \in 1..Len(reservations) : reservations[k].cart_id \in LiveCartIds}}

\* the decision procedure of the planogram update: absent, fewer slots, else OK
Decision(current, staged) ==
    IF \E v \in ReservedVariants :
           \A unit_id \in 1..MAX_UNITS : SlotsCount(staged[unit_id].slots, v) = 0
    THEN [status |-> FALSE, reason |-> "RESERVED_PRODUCT_ABSENT"]
    ELSE IF \E v \in ReservedVariants, unit_id \in 1..MAX_UNITS :
                SlotsCount(staged[unit_id].slots, v) < SlotsCount(current[unit_id].slots, v)
    THEN [status |-> FALSE, reason |-> "RESERVED_PRODUCT_OCCUPIES_LESS_SLOTS"]
    ELSE [status |-> TRUE, reason |-> "NO_REASON"]

\* C6: the status and the reason carried by NEW_PLANOGRAM_AVAILABLE are those of the
\* decision procedure: RESERVED_PRODUCT_ABSENT if a variant reserved by a live cart
\* has no slot in the new layout, else RESERVED_PRODUCT_OCCUPIES_LESS_SLOTS if a
\* reserved variant has fewer slots in a unit than now, else OK
C6_ValidationDecision ==
    [][\A layout \in Layouts, variant_ids \in Catalogs :
         ( /\ PlanogramUpdated(layout, variant_ids)
           /\ posted'[1].type = "NEW_PLANOGRAM_AVAILABLE" ) =>
             posted'[1].body = Decision(current_planogram, new_planogram')]_vars

\* C7: an update that runs while a planogram commit is in progress reads either the
\* complete inventory of before the commit or the complete inventory of after it
C7_CommitIsAtomicForUpdate ==
    [][\A who \in Callers, v \in Variants, n \in Amounts :
         ( /\ commit.active
           /\ Update(who.tx, who.display_id, who.cart_type, v, n, FALSE) ) =>
             inventory \in {commit.before, commit.after}]_vars

\* the transactions of the order history records written by the step
RecordedNow ==
    {order_history'[i].transaction_id :
         i \in {k \in 1..Len(order_history') : order_history'[k].obj_id >= next_rec_id}}

\* C10: an order history record is written for a transaction exactly when a REMOTE
\* cart of the transaction leaves the store by PURCHASE_FINISHED, by a
\* prereservation expiry, by a reservation expiry or as expired during startup
\* recovery; a LOCAL cart and a cleared cart leave none
C10_RecordIffRemoteCartLeft ==
    [][RecordedNow =
           {rc.transaction_id : rc \in {x \in last'.removed :
                /\ x.cart_type = "REMOTE"
                /\ x.cause \in {"purchase", "prereservation", "reservation",
                               "startup_expired"}}}]_vars

\* the lifecycle of a cart of the type, in order
LifecycleOrder(cart_type) ==
    IF cart_type = "LOCAL"
    THEN <<"CREATED", "CHECKOUT", "DISPENSING", "COMPLETE">>
    ELSE <<"PRERESERVATION", "RESERVED", "DISPENSING", "COMPLETE">>

\* the place of the cart's status in the lifecycle of its type, 0 when it has none
Position(cart) ==
    LET order == LifecycleOrder(cart.cart_type)
        hits == {k \in 1..Len(order) : order[k] = cart.status}
    IN  IF hits = {} THEN 0 ELSE CHOOSE k \in hits : TRUE

\* C11: a step (update, begin_transaction, reserve, prolong, dispense, clear, sweep)
\* leaves every cart that stays in the store with its type and with a status of its
\* lifecycle that is not before the one it had
C11_StatusNeverMovesBack ==
    [][\A c \in Range(carts), d \in Range(carts') :
         d.obj_id = c.obj_id =>
             /\ d.cart_type = c.cart_type
             /\ Position(d) > 0
             /\ Position(d) >= Position(c)]_vars

\* a transaction has just begun or a reservation has just been confirmed, with a
\* LOCAL cart in CHECKOUT and a REMOTE cart in RESERVED
C11_Witness ==
    /\ last.op \in {"begin_transaction", "reserve"} /\ last.res = "OK"
    /\ \E c, d \in Range(carts) :
           /\ c.cart_type = "LOCAL" /\ c.status = "CHECKOUT"
           /\ d.cart_type = "REMOTE" /\ d.status = "RESERVED"

TimersOf(list, cart_id) == SelectSeq(list, LAMBDA i : i.obj_id = cart_id)

\* C13: after clear(tx) returns OK the cart is gone and neither the short
\* expiration list nor the reservation expiration list has an item of its cart id
C13_ClearLeavesNoTimer ==
    [][\A transaction_id \in AllTxIds :
         (Clear(transaction_id) /\ last'.res = "OK") =>
             LET cart_id == CartIdOf(carts, transaction_id)
             IN  /\ get_cart(carts', cart_id) = <<>>
                 /\ TimersOf(exp_list', cart_id) = <<>>
                 /\ TimersOf(reservation_exp_list', cart_id) = <<>>]_vars

\* C18: the handling of BEGIN_TRANSACTION_REQUEST {cart_id} posts exactly one
\* BEGIN_TRANSACTION_RESPONSE {cart_id, success}; success is true exactly when the
\* cart received the transaction id of the Cloud and moved to CHECKOUT
C18_OneResponsePerRequest ==
    [][BeginTransaction =>
         LET cart_id == Head(event_q).cart_id
             moved == \E c \in Range(carts') :
                          /\ c.obj_id = cart_id
                          /\ c.status = "CHECKOUT"
                          /\ c.transaction_id \in CloudTxIds
                          /\ c \notin Range(carts)
         IN  posted' = <<BeginTransactionResponse(cart_id, moved)>>]_vars

\* C14: after an update that returns OK on a REMOTE cart in PRERESERVATION, the one
\* that creates the cart included, the short expiration list holds exactly one item
\* of the cart, with the time of the update plus the prereservation timeout as its
\* deadline
C14_UpdateRestartsTimer ==
    [][\A v \in Variants, n \in Amounts, db_error \in BOOLEAN :
         ( /\ Update(RemoteTx, 0, "REMOTE", v, n, db_error)
           /\ last'.res = "OK"
           /\ Head(get_cart_by_transaction(carts', RemoteTx)).cart_type = "REMOTE"
           /\ Head(get_cart_by_transaction(carts', RemoteTx)).status = "PRERESERVATION" ) =>
             TimersOf(exp_list', CartIdOf(carts', RemoteTx)) =
                 <<ExpirationItem(CartIdOf(carts', RemoteTx), now + PrereservationSeconds)>>]_vars

\* an update of the REMOTE cart has just returned OK, later than the update that
\* created the cart, and the timer runs from the time of this update
C14_Witness ==
    /\ last.op = "update" /\ last.res = "OK"
    /\ now >= 1
    /\ get_cart_by_transaction(carts, RemoteTx) # <<>>
    /\ Head(get_cart_by_transaction(carts, RemoteTx)).status = "PRERESERVATION"
    /\ ItemAmount(cart_contents, CartIdOf(carts, RemoteTx), V1) = MaxItemAmount
    /\ TimersOf(exp_list, CartIdOf(carts, RemoteTx)) =
           <<ExpirationItem(CartIdOf(carts, RemoteTx), now + PrereservationSeconds)>>

\* the items of an expiration list whose deadline is reached at time t, and the
\* items whose deadline is later
Due(list, t) == SelectSeq(list, LAMBDA i : i.exp_at <= t)
NotDue(list, t) == SelectSeq(list, LAMBDA i : i.exp_at > t)

\* C15: a sweep of an expiration list removes from it exactly the items whose
\* deadline is less than or equal to the current time and performs the expiry
\* action for each of them: the cart of a short or reservation item is removed, the
\* record of an order history item is deleted
C15_SweepRemovesDueItems ==
    [][\A db_error \in BOOLEAN :
         Sweep(db_error) =>
             /\ exp_list' = NotDue(exp_list, now)
             /\ \A i \in Range(Due(exp_list, now)) : get_cart(carts', i.obj_id) = <<>>
             /\ (exp_tm_tick_cnt + 1 >= EXP_TM_TICKS_IN_MINUTE) =>
                    /\ reservation_exp_list' = NotDue(reservation_exp_list, now)
                    /\ \A i \in Range(Due(reservation_exp_list, now)) :
                           get_cart(carts', i.obj_id) = <<>>
                    /\ \A i \in Range(order_hist_exp_list) :
                           (i \in Range(order_hist_exp_list')) <=> (i.exp_at > now)
                    /\ \A i \in Range(Due(order_hist_exp_list, now)) :
                           \A r \in Range(order_history') : r.obj_id # i.obj_id]_vars

\* the carts startup recovery looks after, their window, and the end of the window
Recoverable(cart) ==
    (cart.cart_type = "REMOTE" /\ cart.status = "RESERVED") \/ cart.status = "CHECKOUT"
Window(cart) ==
    IF cart.status = "CHECKOUT" THEN ExpirationSeconds ELSE ReservationMinutes * SecPerMin
WindowOver(cart, t) == cart.locked_at + Window(cart) <= t

\* the remaining time _on_startup arms the timer of a kept cart with: seconds for a
\* cart in CHECKOUT, whole minutes for a RESERVED cart
RemainingArmed(cart, t) ==
    IF cart.status = "CHECKOUT" THEN cart.locked_at + Window(cart) - t
    ELSE (ReservationMinutes - ((t - cart.locked_at) \div SecPerMin)) * SecPerMin

\* the timers of a cart in the two lists of cart timers after the step
TimersAfter(cart_id) ==
    TimersOf(exp_list', cart_id) \o TimersOf(reservation_exp_list', cart_id)

PrereservationPending(deadline) ==
    \E c \in Range(carts) :
        /\ c.cart_type = "REMOTE" /\ c.status = "PRERESERVATION"
        /\ c.transaction_id = RemoteTx
        /\ TimersOf(exp_list, c.obj_id) = <<ExpirationItem(c.obj_id, deadline)>>

\* the sweep has removed the REMOTE cart after the deadline and announced it
PrereservationExpired(deadline) ==
    /\ now > deadline
    /\ get_cart_by_transaction(carts, RemoteTx) = <<>>
    /\ \E i \in 1..Len(posted) :
           posted[i] = Event("RESERVATION_COMPLETED",
                             [transaction_id |-> RemoteTx, status |-> "EXPIRED"])

\* a request for a cart has just been handled
CartRequested == last.op \in {"update", "prolong", "reserve", "clear"}

\* C17: a REMOTE cart in PRERESERVATION that receives no further update, prolong,
\* confirm or cancel is eventually removed after its prereservation timeout has
\* elapsed, and RESERVATION_COMPLETED{transaction_id, EXPIRED} is posted for it
C17_PrereservationTimesOut ==
    \A deadline \in 0..(MaxTime - 1) :
        PrereservationPending(deadline) ~> (PrereservationExpired(deadline) \/ CartRequested)

\* the events PLANOGRAM_UPDATE_DONE and PLANOGRAM_UPDATE_FAILED among the posted ones
UpdateOutcomes(events) ==
    SelectSeq(events, LAMBDA e : e.type \in {"PLANOGRAM_UPDATE_DONE",
                                              "PLANOGRAM_UPDATE_FAILED"})

\* C19: every NEW_PLANOGRAM_APPLY the planogram worker processes ends with exactly
\* one of PLANOGRAM_UPDATE_DONE (the commit succeeded) or PLANOGRAM_UPDATE_FAILED
\* (the commit was prevented)
C19_ApplyPostsOneOutcome ==
    [][commit.active /\ ~commit'.active =>
           /\ Len(UpdateOutcomes(posted')) = 1
           /\ UpdateOutcomes(posted')[1].type = "PLANOGRAM_UPDATE_DONE" <=> last'.res = "OK"]_vars

\* the layout is equal to the current one: same trays, slots, widths, depths and
\* variants in every unit
SameLayout(layout) ==
    \A unit_id \in 1..MAX_UNITS :
        _compare_planogram_trays(current_planogram[unit_id].slots, Trays(layout).slots)

\* C20: when a planogram notification delivers a layout equal to the current one,
\* PLANOGRAM_IS_UP_TO_DATE is posted, neither NEW_PLANOGRAM_AVAILABLE nor
\* PLANOGRAM_UPDATE_DONE is posted, and every inventory slot quantity and every
\* reservation is unchanged
C20_EqualLayoutIsUpToDate ==
    [][\A layout \in Layouts :
           /\ SameLayout(layout)
           /\ \/ \E variant_ids \in Catalogs : PlanogramUpdated(layout, variant_ids)
              \/ PlanogramUpdatedRaises(layout)
           => /\ \E i \in 1..Len(posted') : posted'[i].type = "PLANOGRAM_IS_UP_TO_DATE"
              /\ \A i \in 1..Len(posted') :
                     posted'[i].type \notin {"NEW_PLANOGRAM_AVAILABLE", "PLANOGRAM_UPDATE_DONE"}
              /\ inventory' = inventory
              /\ reservations' = reservations]_vars

\* C20 with the comparison called as it was meant: the handler alone
EqualLayoutReadThrough ==
    [][\A layout \in Layouts :
           /\ SameLayout(layout)
           /\ \E variant_ids \in Catalogs : PlanogramUpdated(layout, variant_ids)
           => /\ posted' = <<Event("PLANOGRAM_IS_UP_TO_DATE", <<>>)>>
              /\ inventory' = inventory
              /\ reservations' = reservations]_vars

\* the planogram notifications: what the Cloud returns and how the handler runs
Notifications == [layout : Layouts, variant_ids : Catalogs, outcome : NotificationOutcomes]

\* the handler run on a notification, from the given staged buffers
Process(buffers, n) ==
    _planogram_updated_event_handler(buffers, n.layout, n.variant_ids, n.outcome)

StagedNow == Buffers(new_planogram, new_variants)
NothingStaged == Buffers(NoPlanogram, {})

InvokedAt(handler, event) ==
    {k \in 1..Len(delivered) : delivered[k] = Delivery(handler, event)}

SubscribedToBoth(e1, e2) ==
    Range(_subscriptions(e1.type)) \cap Range(_subscriptions(e2.type))

\* C22: for any two events posted with the same priority, e1 before e2, every
\* handler subscribed to both event types is invoked for e1 before it is invoked
\* for e2
C22_FifoWithinPriority ==
    \A i, j \in 1..Len(bus_log) :
        i < j /\ bus_log[i].priority = bus_log[j].priority =>
            \A handler \in SubscribedToBoth(bus_log[i], bus_log[j]) :
                \A k \in InvokedAt(handler, bus_log[j]) :
                    \E m \in InvokedAt(handler, bus_log[i]) : m < k

\* two events of one priority have reached a handler subscribed to both, and so
\* have two events that handlers posted while the dispatcher was at work
C22_Witness ==
    /\ \E i, j \in 1..Len(bus_log) :
           /\ i < j
           /\ bus_log[i].priority = bus_log[j].priority
           /\ bus_log[i].type # bus_log[j].type
           /\ InvokedAt("logic.machine", bus_log[i]) # {}
           /\ InvokedAt("logic.machine", bus_log[j]) # {}
    /\ \E i, j \in 1..Len(bus_log) :
           /\ i < j
           /\ bus_log[i].type = "MACHINE_STATE_CHANGED"
           /\ bus_log[j].type = "MACHINE_STATE_CHANGED"
           /\ InvokedAt("ui.ws_server", bus_log[j]) # {}

\* the events queued when the tick under way started, and the place of an event
\* in its queue then
QueuedAtStart ==
    IF dispatch.at_start = <<>> THEN {}
    ELSE UNION {Range(Head(dispatch.at_start)[priority]) : priority \in Priorities}

PlaceAtStart(event) ==
    CHOOSE k \in 1..Len(Head(dispatch.at_start)[event.priority]) :
        Head(dispatch.at_start)[event.priority][k] = event

\* every handler of higher has run before any handler of lower has
RunsBefore(higher, lower) ==
    \A k \in 1..Len(delivered) :
        delivered[k].event = lower =>
            \A handler \in Range(_subscriptions(higher.type)) :
                \E m \in InvokedAt(handler, higher) : m < k

\* C23 (as claimed): if a higher-priority and a lower-priority event are both
\* queued when a dispatcher tick starts, the handlers of the higher-priority event
\* run before the handlers of the lower-priority event, for any number of queued
\* events
C23_HigherPriorityFirst ==
    \A higher, lower \in QueuedAtStart :
        Rank(higher.priority) > Rank(lower.priority) => RunsBefore(higher, lower)

\* C23 (amended): ... provided the higher-priority event is among the events of its
\* queue that one tick drains (the first MAX_NUM_..._PRIO_EVENTS_PER_TIME of them)
C23_HigherPriorityFirstWithinTick ==
    \A higher, lower \in QueuedAtStart :
        /\ Rank(higher.priority) > Rank(lower.priority)
        /\ PlaceAtStart(higher) <= PerTime(higher.priority)
        => RunsBefore(higher, lower)

\* a tick has run the handlers of a lower-priority event that was posted before a
\* higher-priority one, both queued when the tick started
C23_Witness ==
    \E higher, lower \in QueuedAtStart :
        /\ Rank(higher.priority) > Rank(lower.priority)
        /\ lower.id < higher.id
        /\ _subscriptions(higher.type) # <<>>
        /\ \E k \in 1..Len(delivered) : delivered[k].event = lower

PostedOfType(events, type) == SelectSeq(events, LAMBDA e : e.type = type)

\* C24: starting in STARTUP with planogram absent and dispenser not ready,
\* HW_DISPENSER_IS_READY alone leaves the machine in STARTUP and posts no
\* STARTUP_COMPLETE; the subsequent PLANOGRAM_UPDATE_DONE moves it to AVAILABLE and
\* posts STARTUP_COMPLETE, and a following DOOR_STATE_CHANGED{open: true} moves it
\* to MAINTENANCE
C24_StartupPath ==
    [][MachineWorker =>
         LET ev == Head(machine_q)
         IN  /\ ev.type = "HW_IS_READY" /\ current_state = "STARTUP"
                    /\ ~planogram_set /\ ~is_door_open
                 => /\ current_state' = "STARTUP"
                    /\ PostedOfType(posted', "STARTUP_COMPLETE") = <<>>
             /\ ev.type = "PLANOGRAM_UPDATED" /\ current_state = "STARTUP"
                    /\ dispenser_is_ready /\ ~is_door_open
                 => /\ current_state' = "AVAILABLE"
                    /\ PostedOfType(posted', "STARTUP_COMPLETE") # <<>>
             /\ ev.type = "DOOR_STATE_CHANGED" /\ ev.body = <<TRUE>>
                    /\ current_state = "AVAILABLE"
                 => current_state' = "MAINTENANCE"]_vars

\* C25: one MACHINE_STATE_CHANGED event is posted for every state change of the
\* machine FSM, and its state field is the state the FSM has just entered
C25_StateChangedCarriesNewState ==
    [][current_state' # current_state =>
           PostedOfType(posted', "MACHINE_STATE_CHANGED")
               = <<Event("MACHINE_STATE_CHANGED", [state |-> current_state'])>>]_vars

\* C26: for every machine state and every valuation of the inputs, once one step
\* has been evaluated, evaluating another step with the same inputs leaves the
\* state unchanged and posts no event
C26_StepIsIdempotent ==
    [][FsmRun /\ last.op = "fsm_run" =>
           current_state' = current_state /\ posted' = <<>>]_vars

\* the threads that are inside a cart-mutating operation: the worker with a
\* command other than DUMMY, the callers inside an operation
Executing ==
    {thread \in CartCallers : calls[thread] # ""}
    \cup (IF /\ worker["logic.cart"].pc = "handle"
             /\ Head(worker["logic.cart"].ev).type # "DUMMY"
          THEN {"worker"} ELSE {})

\* C27: cart-mutating operations are serialized: at no time are two of the
\* threads (the cart worker handling a command, the REST thread inside a direct
\* call, the dispatcher inside the PURCHASE_FINISHED handling, the periodic task
\* inside an expiration sweep) inside a cart-mutating operation together.
C27_CartOperationsSerialized == Cardinality(Executing) <= 1

\* the places of a queue that hold an event put there before the DUMMY of stop()
WaitingBeforeSentinel(component) ==
    LET q == EventQueue(component)
    IN  {i \in 1..Len(q) : /\ q[i] # Sentinel(component)
                           /\ \E j \in (i + 1)..Len(q) : q[j] = Sentinel(component)}

\* C28: when a component is stopped, every event that was in the queue of its
\* worker before the sentinel was enqueued is handled before the worker thread
\* exits: a worker that has exited leaves no such event in the queue.
C28_WorkerDrainsToSentinel ==
    \A component \in Components :
        worker[component].pc = "exited" => WaitingBeforeSentinel(component) = {}

\* C29: no single inbound message or bus event (NEW_PLANOGRAM_APPLY when nothing
\* is staged, a planogram notification in which a call fails, a malformed cart
\* command) terminates the planogram worker or the cart worker: no worker is
\* ever ended by an exception of a handler.
C29_NoMessageEndsAWorker ==
    \A component \in Components : worker[component].pc # "raised"

\* the event PlanogramLogic posted last is NEW_PLANOGRAM_AVAILABLE {status: false}
RefusedLast ==
    /\ Len(plan_posted) = 1
    /\ plan_posted[1].type = "NEW_PLANOGRAM_AVAILABLE"
    /\ ~plan_posted[1].body.status

\* the planogram worker is in the if chain with APPLY_PLANOGRAM
HandlingApply ==
    /\ worker["logic.planogram"].pc = "handle"
    /\ Head(worker["logic.planogram"].ev).type = "APPLY_PLANOGRAM"

\* C30: PLANOGRAM_UPDATE_DONE is posted, and inventory is changed by a commit,
\* only for a staged planogram whose validation produced status OK: the handling
\* of a NEW_PLANOGRAM_APPLY that follows NEW_PLANOGRAM_AVAILABLE {status: false}
\* changes no inventory slot and posts no PLANOGRAM_UPDATE_DONE.
C30_RefusedPlanogramIsNotCommitted ==
    [][(RefusedLast /\ HandlingApply /\ worker'["logic.planogram"].pc # "handle")
         => /\ inventory' = inventory
            /\ \A i \in 1..Len(posted') : posted'[i].type # "PLANOGRAM_UPDATE_DONE"]_vars

\* the layout the inventory slots of the repository spell out (what
\* PlanogramLogic.start builds), next to the planogram held in memory
DerivedFromInventory ==
    \A unit_id \in 1..MAX_UNITS :
        LET derived == PlanogramStart(inventory)[unit_id]
            current == current_planogram[unit_id]
        IN  /\ current.none = derived.none
            /\ _compare_planogram_trays(current.slots, derived.slots)

\* C31: whenever the planogram worker is idle (no commit is running), the
\* in-memory current planogram equals the layout derived from the inventory
\* slots of the repository: same keys, variant, width and depth.
C31_CurrentPlanogramFollowsInventory == ~commit.active => DerivedFromInventory

\* the places, in the order the transitions of the current state were added, of
\* those whose predicate is true for the inputs as they are
TruePlaces ==
    {i \in 1..Len(_transitions(current_state, Inputs)) :
         _transitions(current_state, Inputs)[i].holds}

FirstTarget ==
    _transitions(current_state, Inputs)[CHOOSE i \in TruePlaces :
                                            \A j \in TruePlaces : i <= j].to_state

\* C32: FSM.run evaluates the transitions of the current state in the order they
\* were added and takes the first whose predicate is true: the exit callback of
\* the current state runs (STARTUP posts STARTUP_COMPLETE), then the enter
\* callback of the target (it posts MACHINE_STATE_CHANGED and still reads the
\* state being left), then the target becomes the current state; when no
\* predicate is true the state is unchanged and no callback runs.
C32_RunTakesFirstTrueTransition ==
    [][FsmRun =>
           IF TruePlaces = {}
           THEN current_state' = current_state /\ posted' = <<>>
           ELSE /\ current_state' = FirstTarget
                /\ posted' = (IF current_state = "STARTUP"
                              THEN <<Event("STARTUP_COMPLETE", <<>>)>> ELSE <<>>)
                             \o <<Event("MACHINE_STATE_CHANGED",
                                        [state |-> current_state])>>]_vars

\* a step was taken from AVAILABLE with both the predicate of BUSY and the later
\* one of ERROR true: BUSY, added first, was entered
C32_Witness ==
    /\ last.op = "fsm_run"
    /\ current_state = "BUSY"
    /\ is_hw_error_indicated
    /\ posted = <<Event("MACHINE_STATE_CHANGED", [state |-> "AVAILABLE"])>>

\* the reservation quantities placed at the slot of an inventory row: a
\* reservation row names its slot by unit and location
PlacedAt(item) ==
    SumQuantity(SelectSeq(reservations, LAMBDA r : /\ r.variant_id = item.variant_id
                                                   /\ r.unit_id = item.unit_id
                                                   /\ r.location = item.location))

\* C33: without planogram commits, for every inventory slot holding variant v the
\* sum of the reservation quantities placed at that slot never exceeds the
\* quantity of the slot, after any sequence of serialized update calls by any
\* number of carts.
C33_SlotNotOverReserved ==
    \A i \in 1..Len(inventory) : PlacedAt(inventory[i]) <= inventory[i].quantity

\* C34: after every step of the machine FSM (dispenser_ready is only ever set),
\* if the state is AVAILABLE then, for the inputs used in that step,
\* planogram_present and dispenser_ready hold and door_open, hw_error and
\* dispensing_in_progress are all false.
C34_AvailableMeansConditionHolds ==
    [][(MachineWorker \/ FsmRun) /\ current_state' = "AVAILABLE" =>
           /\ planogram_set' /\ dispenser_is_ready'
           /\ ~is_door_open' /\ ~is_hw_error_indicated' /\ ~is_dispensing_in_progress']_vars

\* the machine is AVAILABLE after the worker handled an event, the door having
\* been opened and closed on the way
C34_Witness ==
    /\ current_state = "AVAILABLE"
    /\ last.op = "DOOR_STATE_CHANGED"
    /\ posted = <<Event("MACHINE_STATE_CHANGED", [state |-> "MAINTENANCE"])>>

\* the rows the inventory held when the commit began that have the key of a row
OldRows(item) == {b \in Range(commit.before) : SameKey(b, item)}

\* C35: a planogram commit keeps the quantity of every inventory slot whose
\* (unit, tray, location) and variant_id are the same in the old and the new
\* layout (also when only its width or depth changed), and sets quantity 0 for
\* new slots and for slots whose variant changed.
C35_CommitKeepsQuantityOfSameVariant ==
    [][ApplyFinish =>
           \A i \in 1..Len(inventory') :
               LET item == inventory'[i]
               IN  IF \E b \in OldRows(item) : b.variant_id = item.variant_id
                   THEN \A b \in OldRows(item) : item.quantity = b.quantity
                   ELSE item.quantity = 0]_vars

\* C36: if prolong(tx) returns OK at time t, the cart is not removed by an
\* expiration sweep before t + prereservation_timeout, even when a sweep is
\* running on its own thread concurrently with the prolong call: the step of a
\* sweep that directly follows a prolong that returned OK, at the instant of the
\* prolong, removes no cart.
C36_ProlongedCartSurvivesSweep ==
    [][(SweepRemoves /\ last.op = "prolong" /\ last.res = "OK") => last'.removed = {}]_vars

\* the deliveries of the event with this id to a handler
DeliveriesOf(id, handler) ==
    {k \in 1..Len(delivered) : delivered[k].event.id = id /\ delivered[k].handler = handler}

\* the event with this id has been posted and every handler subscribed to its type
\* has been invoked with it once
DispatchedOnce(id) ==
    /\ id <= Len(bus_log)
    /\ \A k \in 1..Len(_subscriptions(bus_log[id].type)) :
           Cardinality(DeliveriesOf(id, _subscriptions(bus_log[id].type)[k])) = 1

\* C37: every event posted to a queue of any priority after the bus was started is
\* eventually dispatched, exactly once to each handler subscribed to its type
\* (whatever waits in the high priority queue), and no handler is ever invoked
\* twice with the same event
C37_PostedIsDispatchedOnce ==
    /\ \A id \in 1..MaxEvents : (id <= Len(bus_log)) ~> DispatchedOnce(id)
    /\ [](\A id \in 1..MaxEvents, handler \in {"logic.cart", "logic.machine", "ui.ws_server"} :
              Cardinality(DeliveriesOf(id, handler)) <= 1)

WorkerExited == \E component \in Components : worker[component].pc \in {"exited", "raised"}

\* C39: during shutdown the timer of the dispatcher and the timer of the
\* expiration sweep are cancelled before any worker thread is joined, so no
\* dispatch tick and no sweep runs after a worker has exited
C39_TimersCancelledBeforeJoin ==
    /\ []((\E component \in Components : stop_at[component] = "stopped") =>
              \A timer \in Timers : timers[timer] = "cancelled")
    /\ [][(DispatcherTick \/ SweepTick) => ~WorkerExited]_vars

\* C40: stop() of a module with a worker always terminates: once stop() has set
\* the flag and put the sentinel in the queue, join returns, and the worker, at
\* whichever point of its loop it was, does not pass the test of the loop again
\* (so it takes at most one further entry from the queue), provided the handler in
\* progress returns
C40_StopTerminates ==
    /\ \A component \in Components :
           (stop_at[component] = "joining") ~> (stop_at[component] = "stopped")
    /\ [][\A component \in Components :
               stop_at[component] = "joining" /\ worker[component].pc = "while"
                   => worker'[component].pc \in {"while", "exited"}]_vars

\* both modules are stopped; the cart worker left its loop at the test with
\* entries still in its queue, the planogram worker while its handler was raising
C40_Witness ==
    /\ stop_at["logic.cart"] = "stopped"
    /\ worker["logic.cart"].pc = "exited"
    /\ event_q # <<>>
    /\ stop_at["logic.planogram"] = "stopped"
====
